---- MODULE Spec2Model ----
(***************************************************************************)
(* Route sequencing engine of the logistics route optimizer:               *)
(*   src/algorithms/tsp.js       nearest neighbour + 2-opt                 *)
(*   src/unnamed/part_006        "dijkstra" frontier heuristic, metrics,   *)
(*                               reoptimizeRoute, getDistanceMatrix        *)
(*   src/unnamed/part_001        routeOptimizationController handlers      *)
(*                                                                         *)
(* Conventions.  Index VALUES are the code's 0-based indices; a JS array   *)
(* is a TLA+ sequence, so the code's position p is position p+1 here.      *)
(* A matrix is a function [0..n-1 -> [0..n-1 -> cell]].                    *)
(***************************************************************************)
EXTENDS Integers, Sequences, FiniteSets, TLC

\* ------------------------------------------------------------------ bounds
\* number of distinct locations known to the oracle in the request model
NumPoints == 3
\* largest leg distance (and duration) the oracle reports in the request model
MaxDist == 1
\* number of indices of the matrices given to the TSP functions directly
NumIdx == 4
\* largest finite leg distance in the matrices given to the TSP functions
MaxLeg == 2
\* largest maxIterations argument tried for twoOptImprovement
MaxIter == 2
\* number of times the clock advances in the models with time
MaxTicks == 2
\* number of concurrent callers of getDistanceMatrix
NumCallers == 2

\* ------------------------------------------------------------ JS numbers
\* JavaScript's Infinity: larger than every finite sum the model can form.
Infinity == 1000000

\* a + b on JS numbers that are non-negative integers or Infinity
Plus(a, b) == IF a = Infinity \/ b = Infinity THEN Infinity ELSE a + b

\* ------------------------------------------------------------- JS values
\* A JS value of the kinds the sequencers handle: a number, null, or a
\* matrix cell object {distance:{value}, duration:{value}}.
JsNum(n)     == [type |-> "number", value |-> n, duration |-> 0]
JsNull       == [type |-> "null",   value |-> 0, duration |-> 0]
JsCell(d, t) == [type |-> "object", value |-> d, duration |-> t]

\* an absent (undefined) point
NoPoint == -1

\* ToNumber(v) is NaN exactly for an object ("[object Object]" -> NaN)
IsNaN(v) == v.type = "object"
\* ToNumber(v) for the others: a number is itself, null is +0
ToNumber(v) == IF v.type = "number" THEN v.value ELSE 0

\* the abstract relational comparison a < b of JS: false when either is NaN
JsLess(a, b) == ~IsNaN(a) /\ ~IsNaN(b) /\ ToNumber(a) < ToNumber(b)

\* --------------------------------------------------------------- helpers
Range(s) == {s[k] : k \in DOMAIN s}
\* Array.prototype.slice(from) / slice(0, to) with 0-based bounds
SliceFrom(s, from) == SubSeq(s, from + 1, Len(s))
SliceTo(s, to) == SubSeq(s, 1, to)
\* number of positions of s that hold x
Count(s, x) == Cardinality({k \in DOMAIN s : s[k] = x})

\* =====================================================================
\* src/algorithms/tsp.js
\* =====================================================================
\* distanceMatrix.length
NumPointsOf(m) == Cardinality(DOMAIN m)

\* NNScan with <= in place of < in the test of line 30
RECURSIVE NNScanLastOnTie(_, _, _, _, _, _)
NNScanLastOnTie(m, visited, currentPoint, i, nearestPoint, minDistance) ==
  IF i >= NumPointsOf(m) THEN nearestPoint
  ELSE IF i \notin visited /\ m[currentPoint][i] <= minDistance
       THEN NNScanLastOnTie(m, visited, currentPoint, i + 1, i, m[currentPoint][i])
       ELSE NNScanLastOnTie(m, visited, currentPoint, i + 1, nearestPoint, minDistance)

\* the for-loop of nearestNeighbor (tsp.js 29-34), from index i on: the
\* nearest unvisited index found, or -1
RECURSIVE NNScan(_, _, _, _, _, _)
NNScan(m, visited, currentPoint, i, nearestPoint, minDistance) ==
  IF i >= NumPointsOf(m) THEN nearestPoint
  ELSE IF i \notin visited /\ m[currentPoint][i] < minDistance
       THEN NNScan(m, visited, currentPoint, i + 1, i, m[currentPoint][i])
       ELSE NNScan(m, visited, currentPoint, i + 1, nearestPoint, minDistance)

\* state of nearestNeighbor before its while loop (tsp.js 17-21)
NNInit(startIndex) ==
  [tour |-> <<startIndex>>, visited |-> {startIndex}, done |-> FALSE]

\* NNStep without line 39 (visited[nearestPoint] = true)
NNStepNoMark(m, st) ==
  IF ~(Len(st.tour) < NumPointsOf(m)) THEN [st EXCEPT !.done = TRUE]
  ELSE LET currentPoint == st.tour[Len(st.tour)]
           nearestPoint == NNScan(m, st.visited, currentPoint, 0, -1, Infinity)
       IN IF nearestPoint = -1 THEN [st EXCEPT !.done = TRUE]
          ELSE [st EXCEPT !.tour = Append(st.tour, nearestPoint)]

\* one evaluation of the while condition and body (tsp.js 24-40)
NNStep(m, st) ==
  IF ~(Len(st.tour) < NumPointsOf(m)) THEN [st EXCEPT !.done = TRUE]
  ELSE LET currentPoint == st.tour[Len(st.tour)]
           nearestPoint == NNScan(m, st.visited, currentPoint, 0, -1, Infinity)
       IN IF nearestPoint = -1 THEN [st EXCEPT !.done = TRUE]
          ELSE [st EXCEPT !.tour = Append(st.tour, nearestPoint),
                          !.visited = st.visited \cup {nearestPoint}]

RECURSIVE NNLoop(_, _)
NNLoop(m, st) == IF st.done THEN st.tour ELSE NNLoop(m, NNStep(m, st))

\* nearestNeighbor(distanceMatrix, startIndex)
nearestNeighbor(distanceMatrix, startIndex) ==
  NNLoop(distanceMatrix, NNInit(startIndex))

\* calculateTourDistance: the sum of the consecutive legs from position k on
RECURSIVE TourDistanceFrom(_, _, _)
TourDistanceFrom(tour, m, k) ==
  IF k >= Len(tour) THEN 0
  ELSE Plus(m[tour[k]][tour[k + 1]], TourDistanceFrom(tour, m, k + 1))

calculateTourDistance(tour, distanceMatrix) ==
  TourDistanceFrom(tour, distanceMatrix, 1)

\* ReverseSegment whose mirror position is one too low
ReverseSegmentOffByOne(tour, left, right) ==
  [k \in 1..Len(tour) |->
     IF left <= k - 1 /\ k - 1 <= right
     THEN tour[left + right - (k - 1)]
     ELSE tour[k]]

\* the swap loop of twoOptImprovement (tsp.js 89-97): a copy of the tour with
\* the code positions left..right reversed
ReverseSegment(tour, left, right) ==
  [k \in 1..Len(tour) |->
     IF left <= k - 1 /\ k - 1 <= right
     THEN tour[(left + right - (k - 1)) + 1]
     ELSE tour[k]]

\* TwoOptScan with the test of line 101 turned around (newDistance > bestDistance)
RECURSIVE TwoOptScanFlipped(_, _, _, _, _)
TwoOptScanFlipped(bestTour, bestDistance, m, i, j) ==
  IF ~(i < Len(bestTour) - 2)
  THEN [tour |-> bestTour, distance |-> bestDistance, improved |-> FALSE]
  ELSE IF ~(j < Len(bestTour))
  THEN TwoOptScanFlipped(bestTour, bestDistance, m, i + 1, i + 3)
  ELSE LET newTour == ReverseSegment(bestTour, i + 1, j)
           newDistance == calculateTourDistance(newTour, m)
       IN IF newDistance > bestDistance
          THEN [tour |-> newTour, distance |-> newDistance, improved |-> TRUE]
          ELSE TwoOptScanFlipped(bestTour, bestDistance, m, i, j + 1)

\* TwoOptScan that also accepts a reversal of equal distance (<= at line 101)
RECURSIVE TwoOptScanAcceptsTies(_, _, _, _, _)
TwoOptScanAcceptsTies(bestTour, bestDistance, m, i, j) ==
  IF ~(i < Len(bestTour) - 2)
  THEN [tour |-> bestTour, distance |-> bestDistance, improved |-> FALSE]
  ELSE IF ~(j < Len(bestTour))
  THEN TwoOptScanAcceptsTies(bestTour, bestDistance, m, i + 1, i + 3)
  ELSE LET newTour == ReverseSegment(bestTour, i + 1, j)
           newDistance == calculateTourDistance(newTour, m)
       IN IF newDistance <= bestDistance
          THEN [tour |-> newTour, distance |-> newDistance, improved |-> TRUE]
          ELSE TwoOptScanAcceptsTies(bestTour, bestDistance, m, i, j + 1)

\* TwoOptScan whose inner loop stops one position early (j < tour.length - 1)
RECURSIVE TwoOptScanShort(_, _, _, _, _)
TwoOptScanShort(bestTour, bestDistance, m, i, j) ==
  IF ~(i < Len(bestTour) - 2)
  THEN [tour |-> bestTour, distance |-> bestDistance, improved |-> FALSE]
  ELSE IF ~(j < Len(bestTour) - 1)
  THEN TwoOptScanShort(bestTour, bestDistance, m, i + 1, i + 3)
  ELSE LET newTour == ReverseSegment(bestTour, i + 1, j)
           newDistance == calculateTourDistance(newTour, m)
       IN IF newDistance < bestDistance
          THEN [tour |-> newTour, distance |-> newDistance, improved |-> TRUE]
          ELSE TwoOptScanShort(bestTour, bestDistance, m, i, j + 1)

\* the two nested for-loops of one pass (tsp.js 83-110), from the pair (i, j)
\* on: the first strictly improving reversal, or no improvement
RECURSIVE TwoOptScan(_, _, _, _, _)
TwoOptScan(bestTour, bestDistance, m, i, j) ==
  IF ~(i < Len(bestTour) - 2)
  THEN [tour |-> bestTour, distance |-> bestDistance, improved |-> FALSE]
  ELSE IF ~(j < Len(bestTour))
  THEN TwoOptScan(bestTour, bestDistance, m, i + 1, i + 3)
  ELSE LET newTour == ReverseSegment(bestTour, i + 1, j)
           newDistance == calculateTourDistance(newTour, m)
       IN IF newDistance < bestDistance
          THEN [tour |-> newTour, distance |-> newDistance, improved |-> TRUE]
          ELSE TwoOptScan(bestTour, bestDistance, m, i, j + 1)

\* state of twoOptImprovement before its while loop (tsp.js 74-77)
TwoOptInit(tour, m) ==
  [bestTour |-> tour, bestDistance |-> calculateTourDistance(tour, m),
   improved |-> TRUE, iteration |-> 0, done |-> FALSE]

\* TwoOptStep whose while condition lacks iteration < maxIterations
TwoOptStepNoCap(m, maxIterations, st) ==
  IF ~st.improved
  THEN [st EXCEPT !.done = TRUE]
  ELSE LET r == TwoOptScan(st.bestTour, st.bestDistance, m, 0, 2)
       IN [bestTour |-> r.tour, bestDistance |-> r.distance,
           improved |-> r.improved, iteration |-> st.iteration + 1,
           done |-> FALSE]

\* one evaluation of the while condition and body (tsp.js 79-111)
TwoOptStep(m, maxIterations, st) ==
  IF ~(st.improved /\ st.iteration < maxIterations)
  THEN [st EXCEPT !.done = TRUE]
  ELSE LET r == TwoOptScan(st.bestTour, st.bestDistance, m, 0, 2)
       IN [bestTour |-> r.tour, bestDistance |-> r.distance,
           improved |-> r.improved, iteration |-> st.iteration + 1,
           done |-> FALSE]

RECURSIVE TwoOptLoop(_, _, _)
TwoOptLoop(m, maxIterations, st) ==
  IF st.done THEN st.bestTour
  ELSE TwoOptLoop(m, maxIterations, TwoOptStep(m, maxIterations, st))

\* twoOptImprovement(tour, distanceMatrix, maxIterations)
twoOptImprovement(tour, distanceMatrix, maxIterations) ==
  TwoOptLoop(distanceMatrix, maxIterations, TwoOptInit(tour, distanceMatrix))

\* default value of twoOptImprovement's maxIterations parameter
DefaultMaxIterations == 100

\* =====================================================================
\* State
\* =====================================================================
VARIABLES
  oracle,          \* the mapping provider: element it reports for each leg
  apiStatus,       \* response.data.status of the provider's matrix endpoint
  now,             \* Date.now()
  cacheWithExpiry, \* the singleton cache: its Map and its pending timers
  pc,              \* where the request handler in progress stands
  req,             \* req.body of the request in progress
  local,           \* the handler's local variables across its awaits
  res,             \* the response sent (status 0: none yet)
  oracleCalls,     \* provider requests made while serving the request
  tsp,             \* direct run of nearestNeighbor / twoOptImprovement /
                   \* the loop of findOptimalRoute
  callers,         \* concurrent getDistanceMatrix calls: where each stands
  firestore,       \* the deliveryOrders collection: order id -> document
  history          \* observer: the cache when the call in progress began,
                   \* the metrics first returned for each route, the matrices
                   \* of the provider's successful responses, the last set()
                   \* of each key not followed by delete() or clear()

vars == <<oracle, apiStatus, now, cacheWithExpiry, pc, req, local, res,
          oracleCalls, tsp, callers, firestore, history>>

\* =====================================================================
\* src/unnamed/part_003 : utils/cache.js
\* =====================================================================
\* new CacheWithExpiry()
CacheNew == [map |-> <<>>, timers |-> {}]

\* CacheWithExpiry.delete(key)
CacheDelete(c, key) ==
  [c EXCEPT !.map = [k \in DOMAIN c.map \ {key} |-> c.map[k]]]

\* CacheWithExpiry.set(key, value, ttl)
CacheSet(c, key, value, ttl) ==
  [map |-> [k \in DOMAIN c.map \cup {key} |->
              IF k = key THEN [value |-> value, expiry |-> now + ttl]
              ELSE c.map[k]],
   timers |-> c.timers \cup {[key |-> key, due |-> now + ttl]}]

\* CacheWithExpiry.clear()
CacheClear(c) == [c EXCEPT !.map = <<>>]

\* CacheGet without the check of the expiry time
CacheGetNoExpiry(c, key) ==
  IF key \notin DOMAIN c.map THEN [found |-> FALSE, cache |-> c]
  ELSE [found |-> TRUE, cache |-> c]

\* CacheWithExpiry.get(key): found is FALSE for undefined
CacheGet(c, key) ==
  IF key \notin DOMAIN c.map THEN [found |-> FALSE, cache |-> c]
  ELSE IF now > c.map[key].expiry
       THEN [found |-> FALSE, cache |-> CacheDelete(c, key)]
       ELSE [found |-> TRUE, cache |-> c]

\* CacheWithExpiry.has(key)
CacheHas(c, key) ==
  IF key \notin DOMAIN c.map THEN [found |-> FALSE, cache |-> c]
  ELSE IF now > c.map[key].expiry
       THEN [found |-> FALSE, cache |-> CacheDelete(c, key)]
       ELSE [found |-> TRUE, cache |-> c]

\* =====================================================================
\* src/unnamed/part_006 : services/googleMaps.js
\* =====================================================================
\* CACHE_EXPIRY = 15 * 60 * 1000
CACHE_EXPIRY == 900000

\* the formatting loops of getDistanceMatrix (part_006 915-937): an OK
\* element becomes a cell object, any other element becomes null
FormatMatrix(points) ==
  [i \in 0..(Len(points) - 1) |->
     [j \in 0..(Len(points) - 1) |->
        LET element == oracle[<<points[i + 1], points[j + 1]>>]
        IN IF element.status = "OK"
           THEN JsCell(element.distance, element.duration)
           ELSE JsNull]]

\* CacheKey that forgets the order of the points
CacheKeyUnordered(points) == Range(points)

\* `distance_matrix_${JSON.stringify(points)}_${considerTraffic}`: the point
\* list in its order (considerTraffic is never passed, so it is always true)
CacheKey(points) == points

\* GdmLookup that on a miss caches an empty matrix for the key as a marker
\* of the request in flight
GdmLookupReserves(points, c) ==
  LET cached == CacheGet(c, CacheKey(points))
  IN IF cached.found
     THEN [hit |-> TRUE, matrix |-> c.map[CacheKey(points)].value,
           cache |-> cached.cache]
     ELSE [hit |-> FALSE, matrix |-> <<>>,
           cache |-> CacheSet(cached.cache, CacheKey(points), <<>>, CACHE_EXPIRY)]

\* getDistanceMatrix up to its await (part_006 884-888): the cache lookup
GdmLookup(points, c) ==
  LET cached == CacheGet(c, CacheKey(points))
  IN IF cached.found
     THEN [hit |-> TRUE, matrix |-> c.map[CacheKey(points)].value,
           cache |-> cached.cache]
     ELSE [hit |-> FALSE, matrix |-> <<>>, cache |-> cached.cache]

\* GdmFinish that caches the matrix built so far before it looks at the status
GdmFinishSetsFirst(points, c) ==
  IF apiStatus # "OK"
  THEN [threw |-> TRUE, matrix |-> <<>>,
        cache |-> CacheSet(c, CacheKey(points), <<>>, CACHE_EXPIRY)]
  ELSE LET matrix == FormatMatrix(points)
       IN [threw |-> FALSE, matrix |-> matrix,
           cache |-> CacheSet(c, CacheKey(points), matrix, CACHE_EXPIRY)]

\* getDistanceMatrix from the provider's response on (part_006 909-946)
GdmFinish(points, c) ==
  IF apiStatus # "OK"
  THEN [threw |-> TRUE, matrix |-> <<>>, cache |-> c]
  ELSE LET matrix == FormatMatrix(points)
       IN [threw |-> FALSE, matrix |-> matrix,
           cache |-> CacheSet(c, CacheKey(points), matrix, CACHE_EXPIRY)]

\* getDistanceMatrix(points) on cache c, its await included
getDistanceMatrix(points, c) ==
  LET first == GdmLookup(points, c)
  IN IF first.hit
     THEN [threw |-> FALSE, matrix |-> first.matrix, cache |-> first.cache,
           calls |-> 0]
     ELSE IF \E k \in DOMAIN points : points[k] = NoPoint
     THEN \* point.lat of an undefined point: a TypeError before the request
          [threw |-> TRUE, matrix |-> <<>>, cache |-> first.cache, calls |-> 0]
     ELSE LET r == GdmFinish(points, first.cache)
          IN [threw |-> r.threw, matrix |-> r.matrix, cache |-> r.cache,
              calls |-> 1]

\* =====================================================================
\* src/unnamed/part_006 : algorithms/dijkstra.js
\* =====================================================================
\* state of findOptimalRoute before its while loop (part_006 25-35)
FrontierInit(n) ==
  [visited |-> {0},
   distances |-> [i \in 0..(n - 1) |->
                    IF i = 0 THEN JsNum(0) ELSE JsNum(Infinity)],
   path |-> <<0>>, currentPoint |-> 0, done |-> FALSE]

\* FrontierRelax that stores the edge from the current point whatever the
\* stored value is (no comparison with distances[i])
FrontierRelaxOverwrite(m, st) ==
  [i \in DOMAIN st.distances |->
     IF i \notin st.visited /\ ~IsNaN(m[st.currentPoint][i])
     THEN m[st.currentPoint][i]
     ELSE st.distances[i]]

\* FrontierRelax without the test !visited[i]
FrontierRelaxTouchesVisited(m, st) ==
  [i \in DOMAIN st.distances |->
     IF JsLess(m[st.currentPoint][i], st.distances[i])
     THEN m[st.currentPoint][i]
     ELSE st.distances[i]]

\* the relaxation loop (part_006 40-45)
FrontierRelax(m, st) ==
  [i \in DOMAIN st.distances |->
     IF i \notin st.visited /\ JsLess(m[st.currentPoint][i], st.distances[i])
     THEN m[st.currentPoint][i]
     ELSE st.distances[i]]

\* the selection loop (part_006 48-56), from index i on
RECURSIVE FrontierScan(_, _, _, _, _)
FrontierScan(visited, distances, i, minDistance, nextPoint) ==
  IF i >= Cardinality(DOMAIN distances) THEN nextPoint
  ELSE IF i \notin visited /\ JsLess(distances[i], minDistance)
       THEN FrontierScan(visited, distances, i + 1, distances[i], i)
       ELSE FrontierScan(visited, distances, i + 1, minDistance, nextPoint)

\* one evaluation of the while condition and body (part_006 38-65)
FrontierStep(m, st) ==
  IF ~(Len(st.path) < NumPointsOf(m)) THEN [st EXCEPT !.done = TRUE]
  ELSE LET distances == FrontierRelax(m, st)
           nextPoint == FrontierScan(st.visited, distances, 0,
                                     JsNum(Infinity), -1)
       IN IF nextPoint = -1
          THEN [st EXCEPT !.distances = distances, !.done = TRUE]
          ELSE [visited |-> st.visited \cup {nextPoint},
                distances |-> distances,
                path |-> Append(st.path, nextPoint),
                currentPoint |-> nextPoint, done |-> FALSE]

RECURSIVE FrontierLoop(_, _)
FrontierLoop(m, st) ==
  IF st.done THEN st.path ELSE FrontierLoop(m, FrontierStep(m, st))

\* the sequencing part of findOptimalRoute: the path of indices
FrontierPath(distanceMatrix) ==
  FrontierLoop(distanceMatrix, FrontierInit(NumPointsOf(distanceMatrix)))

\* path.map(index => allPoints[index])
MapToPoints(indices, allPoints) ==
  [k \in 1..Len(indices) |-> allPoints[indices[k] + 1]]

\* findOptimalRoute(points, startPoint) on cache c
findOptimalRoute(points, startPoint, c) ==
  LET allPoints == <<startPoint>> \o points
      dm == getDistanceMatrix(allPoints, c)
  IN IF dm.threw
     THEN [threw |-> TRUE, route |-> <<>>, cache |-> dm.cache, calls |-> dm.calls]
     ELSE [threw |-> FALSE,
           route |-> MapToPoints(FrontierPath(dm.matrix), allPoints),
           cache |-> dm.cache, calls |-> dm.calls]

\* a route has a leg whose cell is null in the given raw matrix
HasNullLeg(matrix, len) ==
  \E i \in 0..(len - 2) : matrix[i][i + 1].type = "null"

\* SumLegs that also adds the leg from the last point back to the first
RECURSIVE SumLegsClosed(_, _, _, _)
SumLegsClosed(matrix, len, i, field) ==
  IF ~(i < len - 1)
  THEN (IF field = "distance" THEN matrix[len - 1][0].value
        ELSE matrix[len - 1][0].duration)
  ELSE (IF field = "distance" THEN matrix[i][i + 1].value
        ELSE matrix[i][i + 1].duration)
       + SumLegsClosed(matrix, len, i + 1, field)

\* the summing loop shared by calculateRouteMetrics (part_006 87-90) and
\* calculateTSPRouteMetrics (tsp.js 161-164), from index i on
RECURSIVE SumLegs(_, _, _, _)
SumLegs(matrix, len, i, field) ==
  IF ~(i < len - 1) THEN 0
  ELSE (IF field = "distance" THEN matrix[i][i + 1].value
        ELSE matrix[i][i + 1].duration)
       + SumLegs(matrix, len, i + 1, field)

MetersPerKm == 1000
SecondsPerMinute == 60

\* calculateRouteMetrics(route) on cache c; reading .distance of a null cell
\* is a TypeError, which the catch turns into a thrown Error
calculateRouteMetrics(route, c) ==
  LET dm == getDistanceMatrix(route, c)
      none == [totalDistance |-> 0, totalTime |-> 0]
  IN IF dm.threw \/ HasNullLeg(dm.matrix, Len(route))
     THEN [threw |-> TRUE, metrics |-> none, cache |-> dm.cache,
           calls |-> dm.calls]
     ELSE [threw |-> FALSE,
           metrics |->
             [totalDistance |->
                SumLegs(dm.matrix, Len(route), 0, "distance") \div MetersPerKm,
              totalTime |->
                SumLegs(dm.matrix, Len(route), 0, "duration") \div SecondsPerMinute],
           cache |-> dm.cache, calls |-> dm.calls]

\* reoptimizeRoute(currentRoute, currentPointIndex) on cache c
reoptimizeRoute(currentRoute, currentPointIndex, c) ==
  LET remainingPoints == SliceFrom(currentRoute, currentPointIndex)
      \* remainingPoints[0]: undefined when nothing remains
      startPoint == IF Len(remainingPoints) = 0 THEN NoPoint ELSE remainingPoints[1]
      r == findOptimalRoute(SliceFrom(remainingPoints, 1), startPoint, c)
  IN IF r.threw THEN r
     ELSE [r EXCEPT !.route = SliceTo(currentRoute, currentPointIndex) \o r.route]

\* =====================================================================
\* src/algorithms/tsp.js : the async wrappers
\* =====================================================================
\* a raw matrix has a null cell: cell.distance of it is a TypeError
HasNullCell(matrix) ==
  \E i \in DOMAIN matrix : \E j \in DOMAIN matrix[i] : matrix[i][j].type = "null"

\* rawDistanceMatrix.map(row => row.map(cell =>
\*    cell.distance ? cell.distance.value : Infinity)) on a matrix without
\* null cells: cell.distance is an object, hence truthy
NumericMatrix(matrix) ==
  [i \in DOMAIN matrix |-> [j \in DOMAIN matrix[i] |-> matrix[i][j].value]]

\* findOptimalRouteTSP(points, startPoint) on cache c
findOptimalRouteTSP(points, startPoint, c) ==
  LET allPoints == <<startPoint>> \o points
      dm == getDistanceMatrix(allPoints, c)
  IN IF dm.threw \/ HasNullCell(dm.matrix)
     THEN [threw |-> TRUE, route |-> <<>>, cache |-> dm.cache, calls |-> dm.calls]
     ELSE LET distanceMatrix == NumericMatrix(dm.matrix)
              initialTour == nearestNeighbor(distanceMatrix, 0)
              optimizedTour == twoOptImprovement(initialTour, distanceMatrix,
                                                 DefaultMaxIterations)
          IN [threw |-> FALSE, route |-> MapToPoints(optimizedTour, allPoints),
              cache |-> dm.cache, calls |-> dm.calls]

\* calculateTSPRouteMetrics(route): the same sums as calculateRouteMetrics
\* (its fuelSavingsPercentage field is not modelled)
calculateTSPRouteMetrics(route, c) == calculateRouteMetrics(route, c)

\* =====================================================================
\* src/unnamed/part_001 : controllers/routeOptimizationController.js
\* Points carry lat/lng (non-zero), so the geocoding branch is not taken.
\* A handler is one action per stretch of code between two awaited engine
\* calls; everything a stretch calls is part of its action.
\* =====================================================================
\* an absent (undefined) index in a request body
NoIndex == -2

NoMetrics == [totalDistance |-> 0, totalTime |-> 0]
NoCompare == [dijkstra |-> [route |-> <<>>, metrics |-> NoMetrics],
              tsp |-> [route |-> <<>>, metrics |-> NoMetrics],
              recommended |-> "none"]
NoSimulation == [nonOptimized |-> NoMetrics, optimized |-> NoMetrics,
                 distanceSavingsKm |-> 0, fuelSavings |-> 0]
NoLocal == [route |-> <<>>, dijkstraRoute |-> <<>>, dijkstraMetrics |-> NoMetrics,
            tspRoute |-> <<>>, nonOptimizedMetrics |-> NoMetrics]
NoResponse == [status |-> 0, message |-> "", keys |-> {}, route |-> <<>>,
               metrics |-> NoMetrics, comparison |-> NoCompare,
               simulation |-> NoSimulation]
NoRequest == [op |-> "none", algorithm |-> "", points |-> [kind |-> "missing", items |-> <<>>],
              point |-> NoPoint, index |-> NoIndex]

\* res.status(code).json({success: false, message})
Fail(code, message) == [NoResponse EXCEPT !.status = code, !.message = message]

\* EmptyOrNoArray without its third test (deliveryPoints.length === 0)
EmptyOrNoArrayNoLength(points) == points.kind # "array"

\* !deliveryPoints || !Array.isArray(deliveryPoints) || deliveryPoints.length === 0
\* (the same test guards currentRoute)
EmptyOrNoArray(points) == points.kind # "array" \/ Len(points.items) = 0

\* !startPoint || !startPoint.lat || !startPoint.lng (also currentPosition)
NoCoordinates(point) == point = NoPoint

\* the engine call of a request: algorithm.toLowerCase() === 'tsp' selects the
\* TSP family, anything else the frontier heuristic
UsesTSP(algorithm) == algorithm = "tsp"

\* optimizeRoute up to the return of its sequencing call (part_001 451-497)
OptimizeRoute(body) ==
  /\ pc = "idle"
  /\ req' = body
  /\ IF EmptyOrNoArray(body.points)
     THEN /\ res' = Fail(400, "Delivery points are required and must be a non-empty array")
          /\ pc' = "done"
          /\ UNCHANGED <<local, cacheWithExpiry, oracleCalls>>
     ELSE IF NoCoordinates(body.point)
     THEN /\ res' = Fail(400, "Start point with lat/lng coordinates is required")
          /\ pc' = "done"
          /\ UNCHANGED <<local, cacheWithExpiry, oracleCalls>>
     ELSE LET r == IF UsesTSP(body.algorithm)
                   THEN findOptimalRouteTSP(body.points.items, body.point, cacheWithExpiry)
                   ELSE findOptimalRoute(body.points.items, body.point, cacheWithExpiry)
          IN /\ cacheWithExpiry' = r.cache
             /\ oracleCalls' = oracleCalls + r.calls
             /\ IF r.threw
                THEN /\ res' = Fail(500, "Failed to optimize route")
                     /\ pc' = "done"
                     /\ UNCHANGED local
                ELSE /\ local' = [local EXCEPT !.route = r.route]
                     /\ pc' = "optimize_metrics"
                     /\ UNCHANGED res
  /\ UNCHANGED <<firestore, history, callers, oracle, apiStatus, now, tsp>>

\* optimizeRoute from its metrics call to its response (part_001 494-516)
OptimizeRouteMetrics ==
  /\ pc = "optimize_metrics"
  /\ LET r == IF UsesTSP(req.algorithm)
              THEN calculateTSPRouteMetrics(local.route, cacheWithExpiry)
              ELSE calculateRouteMetrics(local.route, cacheWithExpiry)
     IN /\ cacheWithExpiry' = r.cache
        /\ oracleCalls' = oracleCalls + r.calls
        /\ res' = IF r.threw THEN Fail(500, "Failed to optimize route")
                  ELSE [NoResponse EXCEPT
                          !.status = 200,
                          !.keys = {"optimizedRoute", "metrics", "algorithm"},
                          !.route = local.route, !.metrics = r.metrics]
  /\ pc' = "done"
  /\ UNCHANGED <<firestore, history, callers, oracle, apiStatus, now, req, local, tsp>>

\* InvalidIndex with > in place of >= in its third test
InvalidIndexOffByOne(index, currentRoute) ==
  index = NoIndex \/ index < 0 \/ index > Len(currentRoute)

\* currentPointIndex === undefined || currentPointIndex < 0 ||
\* currentPointIndex >= currentRoute.length (part_001 542)
InvalidIndex(index, currentRoute) ==
  index = NoIndex \/ index < 0 \/ index >= Len(currentRoute)

\* reoptimizeCurrentRoute up to the return of its sequencing call
\* (part_001 524-569)
ReoptimizeCurrentRoute(body) ==
  /\ pc = "idle"
  /\ req' = body
  /\ IF EmptyOrNoArray(body.points)
     THEN /\ res' = Fail(400, "Current route is required and must be a non-empty array")
          /\ pc' = "done"
          /\ UNCHANGED <<local, cacheWithExpiry, oracleCalls>>
     ELSE IF NoCoordinates(body.point)
     THEN /\ res' = Fail(400, "Current position with lat/lng coordinates is required")
          /\ pc' = "done"
          /\ UNCHANGED <<local, cacheWithExpiry, oracleCalls>>
     ELSE IF InvalidIndex(body.index, body.points.items)
     THEN /\ res' = Fail(400, "Valid current point index is required")
          /\ pc' = "done"
          /\ UNCHANGED <<local, cacheWithExpiry, oracleCalls>>
     ELSE LET currentRoute == body.points.items
              remainingPoints == SliceFrom(currentRoute, body.index)
              t == findOptimalRouteTSP(SliceFrom(remainingPoints, 1), body.point,
                                       cacheWithExpiry)
              r == IF UsesTSP(body.algorithm)
                   THEN IF t.threw THEN t
                        ELSE [t EXCEPT !.route =
                                SliceTo(currentRoute, body.index) \o t.route]
                   ELSE reoptimizeRoute(currentRoute, body.index, cacheWithExpiry)
          IN /\ cacheWithExpiry' = r.cache
             /\ oracleCalls' = oracleCalls + r.calls
             /\ IF r.threw
                THEN /\ res' = Fail(500, "Failed to reoptimize route")
                     /\ pc' = "done"
                     /\ UNCHANGED local
                ELSE /\ local' = [local EXCEPT !.route = r.route]
                     /\ pc' = "reoptimize_metrics"
                     /\ UNCHANGED res
  /\ UNCHANGED <<firestore, history, callers, oracle, apiStatus, now, tsp>>

\* reoptimizeCurrentRoute from its metrics call to its response
\* (part_001 566-588)
ReoptimizeCurrentRouteMetrics ==
  /\ pc = "reoptimize_metrics"
  /\ LET r == IF UsesTSP(req.algorithm)
              THEN calculateTSPRouteMetrics(local.route, cacheWithExpiry)
              ELSE calculateRouteMetrics(local.route, cacheWithExpiry)
     IN /\ cacheWithExpiry' = r.cache
        /\ oracleCalls' = oracleCalls + r.calls
        /\ res' = IF r.threw THEN Fail(500, "Failed to reoptimize route")
                  ELSE [NoResponse EXCEPT
                          !.status = 200,
                          !.keys = {"reoptimizedRoute", "metrics", "algorithm"},
                          !.route = local.route, !.metrics = r.metrics]
  /\ pc' = "done"
  /\ UNCHANGED <<firestore, history, callers, oracle, apiStatus, now, req, local, tsp>>

\* Recommended with < in place of <=
RecommendedStrict(tspMetrics, dijkstraMetrics) ==
  IF tspMetrics.totalDistance < dijkstraMetrics.totalDistance
  THEN "tsp" ELSE "dijkstra"

\* the 'recommended' field of compareAlgorithms (part_001 702)
Recommended(tspMetrics, dijkstraMetrics) ==
  IF tspMetrics.totalDistance <= dijkstraMetrics.totalDistance
  THEN "tsp" ELSE "dijkstra"

\* compareAlgorithms up to the return of findOptimalRoute (part_001 639-678)
CompareAlgorithms(body) ==
  /\ pc = "idle"
  /\ req' = body
  /\ IF EmptyOrNoArray(body.points)
     THEN /\ res' = Fail(400, "Delivery points are required and must be a non-empty array")
          /\ pc' = "done"
          /\ UNCHANGED <<local, cacheWithExpiry, oracleCalls>>
     ELSE IF NoCoordinates(body.point)
     THEN /\ res' = Fail(400, "Start point with lat/lng coordinates is required")
          /\ pc' = "done"
          /\ UNCHANGED <<local, cacheWithExpiry, oracleCalls>>
     ELSE LET r == findOptimalRoute(body.points.items, body.point, cacheWithExpiry)
          IN /\ cacheWithExpiry' = r.cache
             /\ oracleCalls' = oracleCalls + r.calls
             /\ IF r.threw
                THEN /\ res' = Fail(500, "Failed to compare algorithms")
                     /\ pc' = "done"
                     /\ UNCHANGED local
                ELSE /\ local' = [local EXCEPT !.dijkstraRoute = r.route]
                     /\ pc' = "compare_dijkstra_metrics"
                     /\ UNCHANGED res
  /\ UNCHANGED <<firestore, history, callers, oracle, apiStatus, now, tsp>>

\* compareAlgorithms: calculateRouteMetrics(dijkstraRoute) (part_001 679)
CompareDijkstraMetrics ==
  /\ pc = "compare_dijkstra_metrics"
  /\ LET r == calculateRouteMetrics(local.dijkstraRoute, cacheWithExpiry)
     IN /\ cacheWithExpiry' = r.cache
        /\ oracleCalls' = oracleCalls + r.calls
        /\ IF r.threw
           THEN /\ res' = Fail(500, "Failed to compare algorithms")
                /\ pc' = "done"
                /\ UNCHANGED local
           ELSE /\ local' = [local EXCEPT !.dijkstraMetrics = r.metrics]
                /\ pc' = "compare_tsp"
                /\ UNCHANGED res
  /\ UNCHANGED <<firestore, history, callers, oracle, apiStatus, now, req, tsp>>

\* compareAlgorithms: findOptimalRouteTSP (part_001 681-683)
CompareTSP ==
  /\ pc = "compare_tsp"
  /\ LET r == findOptimalRouteTSP(req.points.items, req.point, cacheWithExpiry)
     IN /\ cacheWithExpiry' = r.cache
        /\ oracleCalls' = oracleCalls + r.calls
        /\ IF r.threw
           THEN /\ res' = Fail(500, "Failed to compare algorithms")
                /\ pc' = "done"
                /\ UNCHANGED local
           ELSE /\ local' = [local EXCEPT !.tspRoute = r.route]
                /\ pc' = "compare_tsp_metrics"
                /\ UNCHANGED res
  /\ UNCHANGED <<firestore, history, callers, oracle, apiStatus, now, req, tsp>>

\* compareAlgorithms from calculateTSPRouteMetrics to its response
\* (part_001 684-717)
CompareTSPMetrics ==
  /\ pc = "compare_tsp_metrics"
  /\ LET r == calculateTSPRouteMetrics(local.tspRoute, cacheWithExpiry)
     IN /\ cacheWithExpiry' = r.cache
        /\ oracleCalls' = oracleCalls + r.calls
        /\ res' = IF r.threw THEN Fail(500, "Failed to compare algorithms")
                  ELSE [NoResponse EXCEPT
                          !.status = 200,
                          !.keys = {"dijkstra", "tsp", "comparison"},
                          !.comparison =
                             [dijkstra |-> [route |-> local.dijkstraRoute,
                                            metrics |-> local.dijkstraMetrics],
                              tsp |-> [route |-> local.tspRoute,
                                       metrics |-> r.metrics],
                              recommended |->
                                Recommended(r.metrics, local.dijkstraMetrics)]]
  /\ pc' = "done"
  /\ UNCHANGED <<firestore, history, callers, oracle, apiStatus, now, req, local, tsp>>

\* the default of vehicleConsumptionLPer100Km
VehicleConsumptionLPer100Km == 10

\* the simulation object of simulateFuelSavings: fuel consumption is
\* totalDistance * vehicleConsumptionLPer100Km / 100 litres, kept here in
\* hundredths of a litre; the costs, percentages and monthly and yearly
\* figures are positive multiples of fuelSavings and are not modelled
Simulation(nonOptimizedMetrics, optimizedMetrics) ==
  LET nonOptimizedFuelConsumption ==
        nonOptimizedMetrics.totalDistance * VehicleConsumptionLPer100Km
      optimizedFuelConsumption ==
        optimizedMetrics.totalDistance * VehicleConsumptionLPer100Km
  IN [nonOptimized |-> nonOptimizedMetrics, optimized |-> optimizedMetrics,
      distanceSavingsKm |->
        nonOptimizedMetrics.totalDistance - optimizedMetrics.totalDistance,
      fuelSavings |-> nonOptimizedFuelConsumption - optimizedFuelConsumption]

\* simulateFuelSavings up to the return of the metrics of the route in the
\* order given (part_001 725-762)
SimulateFuelSavings(body) ==
  /\ pc = "idle"
  /\ req' = body
  /\ IF EmptyOrNoArray(body.points)
     THEN /\ res' = Fail(400, "Delivery points are required and must be a non-empty array")
          /\ pc' = "done"
          /\ UNCHANGED <<local, cacheWithExpiry, oracleCalls>>
     ELSE IF NoCoordinates(body.point)
     THEN /\ res' = Fail(400, "Start point with lat/lng coordinates is required")
          /\ pc' = "done"
          /\ UNCHANGED <<local, cacheWithExpiry, oracleCalls>>
     ELSE LET nonOptimizedRoute == <<body.point>> \o body.points.items
              r == calculateRouteMetrics(nonOptimizedRoute, cacheWithExpiry)
          IN /\ cacheWithExpiry' = r.cache
             /\ oracleCalls' = oracleCalls + r.calls
             /\ IF r.threw
                THEN /\ res' = Fail(500, "Failed to simulate fuel savings")
                     /\ pc' = "done"
                     /\ UNCHANGED local
                ELSE /\ local' = [local EXCEPT !.nonOptimizedMetrics = r.metrics]
                     /\ pc' = "simulate_route"
                     /\ UNCHANGED res
  /\ UNCHANGED <<firestore, history, callers, oracle, apiStatus, now, tsp>>

\* simulateFuelSavings: after await findOptimalRouteTSP (part_001 765)
SimulateFuelSavingsRoute ==
  /\ pc = "simulate_route"
  /\ LET r == findOptimalRouteTSP(req.points.items, req.point, cacheWithExpiry)
     IN /\ cacheWithExpiry' = r.cache
        /\ oracleCalls' = oracleCalls + r.calls
        /\ IF r.threw
           THEN /\ res' = Fail(500, "Failed to simulate fuel savings")
                /\ pc' = "done"
                /\ UNCHANGED local
           ELSE /\ local' = [local EXCEPT !.route = r.route]
                /\ pc' = "simulate_metrics"
                /\ UNCHANGED res
  /\ UNCHANGED <<firestore, history, callers, oracle, apiStatus, now, req, tsp>>

\* simulateFuelSavings: after await calculateTSPRouteMetrics, to the response
\* (part_001 766-826)
SimulateFuelSavingsMetrics ==
  /\ pc = "simulate_metrics"
  /\ LET r == calculateTSPRouteMetrics(local.route, cacheWithExpiry)
     IN /\ cacheWithExpiry' = r.cache
        /\ oracleCalls' = oracleCalls + r.calls
        /\ res' = IF r.threw THEN Fail(500, "Failed to simulate fuel savings")
                  ELSE [NoResponse EXCEPT
                          !.status = 200,
                          !.keys = {"nonOptimized", "optimized", "savings"},
                          !.route = local.route,
                          !.simulation =
                             Simulation(local.nonOptimizedMetrics, r.metrics)]
  /\ pc' = "done"
  /\ UNCHANGED <<firestore, history, callers, oracle, apiStatus, now, req, local, tsp>>

\* =====================================================================
\* The provider and the requests of the request model
\* =====================================================================
Points == 0..(NumPoints - 1)
Hub == 0
Stops == Points \ {Hub}

\* what the provider reports for a leg of d km: metres, and seconds at
\* two minutes per km
ElementOK(d) == [status |-> "OK", distance |-> d * MetersPerKm,
                 duration |-> 2 * d * SecondsPerMinute]
ElementNoRoute == [status |-> "ZERO_RESULTS", distance |-> 0, duration |-> 0]
Elements == {ElementOK(d) : d \in 0..MaxDist} \cup {ElementNoRoute}

\* the ordered pairs of different members of S
OffDiagonal(S) == {pair \in S \X S : pair[1] # pair[2]}

\* the provider over the points S that reports off[pair] for a leg between
\* two different points; a leg from a point to itself is OK with distance 0
OracleFrom(S, off) ==
  [pair \in S \X S |-> IF pair[1] = pair[2] THEN ElementOK(0) ELSE off[pair]]

Oracles == {OracleFrom(Points, off) : off \in [OffDiagonal(Points) -> Elements]}

\* duplicate-free sequences over a set of points
RECURSIVE SeqsOver(_)
SeqsOver(S) ==
  {<<>>} \cup UNION {{<<x>> \o t : t \in SeqsOver(S \ {x})} : x \in S}

\* a request body's deliveryPoints / currentRoute: absent, not an array, or
\* an array
PointLists(lists) ==
  {[kind |-> "missing", items |-> <<>>], [kind |-> "notArray", items |-> <<>>]}
  \cup {[kind |-> "array", items |-> l] : l \in lists}

Algorithms == {"dijkstra", "tsp"}

HubRoutes == {<<Hub>> \o l : l \in SeqsOver(Stops)}

OptimizeBodies ==
  [op : {"optimize"}, algorithm : Algorithms,
   points : PointLists(SeqsOver(Stops)), point : {NoPoint, Hub},
   index : {NoIndex}]

\* current routes start at the hub; the driver's position is any location.
\* Bodies that pass validation, and bodies that fail one of its tests.
ReoptimizeBodies ==
  {b \in [op : {"reoptimize"}, algorithm : Algorithms,
          points : PointLists({<<>>} \cup HubRoutes),
          point : {NoPoint} \cup Points,
          index : {NoIndex} \cup (-1..NumPoints)] :
     \/ /\ ~EmptyOrNoArray(b.points)
        /\ b.point # NoPoint
        /\ b.index \in 0..(Len(b.points.items) - 1)
     \/ /\ b.point = Hub
        /\ b.index \in {NoIndex, -1, Len(b.points.items)}
     \/ /\ b.point = NoPoint
        /\ b.index = 0}

CompareBodies ==
  [op : {"compare"}, algorithm : {""},
   points : PointLists(SeqsOver(Stops)), point : {NoPoint, Hub},
   index : {NoIndex}]

\* the provider when its endpoint reports a failure: no element is OK
OracleDown == [pair \in Points \X Points |-> ElementNoRoute]

\* no concurrent getDistanceMatrix call
NoCallers == <<>>
NoOrders == <<>>
\* nothing observed yet
NoHistory == [cacheAtStart |-> CacheNew, metrics |-> <<>>, responses |-> {},
              lastSet |-> <<>>]

NoTsp == [phase |-> "off", matrix |-> <<>>, startIndex |-> 0, input |-> <<>>,
          maxIterations |-> 0, nn |-> NNInit(0), opt |-> TwoOptInit(<<>>, <<>>),
          frontier |-> FrontierInit(1)]

Init ==
  /\ \/ apiStatus = "OK" /\ oracle \in Oracles
     \/ apiStatus = "OVER_QUERY_LIMIT" /\ oracle = OracleDown
  /\ now = 0
  /\ cacheWithExpiry = CacheNew
  /\ pc = "idle"
  /\ req = NoRequest
  /\ local = NoLocal
  /\ res = NoResponse
  /\ oracleCalls = 0
  /\ tsp = NoTsp
  /\ callers = NoCallers
  /\ history = NoHistory
  /\ firestore = NoOrders

\* a request arrives only while no request is in progress
OptimizeRequest ==
  pc = "idle" /\ \E body \in OptimizeBodies : OptimizeRoute(body)
ReoptimizeRequest ==
  pc = "idle" /\ \E body \in ReoptimizeBodies : ReoptimizeCurrentRoute(body)
CompareRequest ==
  pc = "idle" /\ \E body \in CompareBodies : CompareAlgorithms(body)

Next ==
  \/ OptimizeRequest
  \/ OptimizeRouteMetrics
  \/ ReoptimizeRequest
  \/ ReoptimizeCurrentRouteMetrics
  \/ CompareRequest
  \/ CompareDijkstraMetrics
  \/ CompareTSP
  \/ CompareTSPMetrics

Spec == Init /\ [][Next]_vars

\* =====================================================================
\* The engine functions called directly, on a fully reachable provider
\* =====================================================================
EnginePoints == 0..(NumIdx - 1)

\* hub H = 0 and stops A = 1, B = 2, C = 3 with the symmetric legs
\* H-A = 1, H-B = 10, H-C = 10, A-B = 1, A-C = 9, B-C = 1
ScenarioMatrix ==
  LET rows == << << 0,  1, 10, 10>>,
                 << 1,  0,  1,  9>>,
                 <<10,  1,  0,  1>>,
                 <<10,  9,  1,  0>> >>
  IN [i \in 0..3 |-> [j \in 0..3 |-> rows[i + 1][j + 1]]]

\* the provider that reports the scenario's legs in km (1 km for a leg to or
\* from a point the scenario does not have)
ScenarioOracle ==
  OracleFrom(EnginePoints,
             [pair \in OffDiagonal(EnginePoints) |->
                IF pair[1] \in 0..3 /\ pair[2] \in 0..3
                THEN ElementOK(ScenarioMatrix[pair[1]][pair[2]])
                ELSE ElementOK(1)])

\* every leg between two different points is OK and 1..MaxLeg km long, or
\* the provider is the scenario's
\* a one-way network: hub H = 0 and stops X = 1, Y = 2, Z = 3 with the legs
\* (row to column, km) below; every leg has a route
FuelScenarioOracle ==
  LET rows == << <<0, 2, 1, 2>>,
                 <<1, 0, 1, 2>>,
                 <<1, 2, 0, 1>>,
                 <<1, 3, 1, 0>> >>
  IN OracleFrom(EnginePoints,
                [pair \in OffDiagonal(EnginePoints) |->
                   IF pair[1] \in 0..3 /\ pair[2] \in 0..3
                   THEN ElementOK(rows[pair[1] + 1][pair[2] + 1])
                   ELSE ElementOK(1)])

EngineOracles ==
  {OracleFrom(EnginePoints, off) :
     off \in [OffDiagonal(EnginePoints) -> {ElementOK(d) : d \in 1..MaxLeg}]}
  \cup {ScenarioOracle, FuelScenarioOracle}

\* non-empty delivery lists for the hub
EngineLists == SeqsOver(EnginePoints \ {Hub}) \ {<<>>}

EngineBody(op, points) ==
  [NoRequest EXCEPT !.op = op, !.points = [kind |-> "array", items |-> points],
                    !.point = Hub]

\* await findOptimalRouteTSP(points, Hub)
CallFindOptimalRouteTSP ==
  /\ pc = "idle"
  /\ \E points \in EngineLists :
       LET r == findOptimalRouteTSP(points, Hub, cacheWithExpiry)
       IN /\ req' = EngineBody("findOptimalRouteTSP", points)
          /\ cacheWithExpiry' = r.cache
          /\ oracleCalls' = oracleCalls + r.calls
          /\ local' = [local EXCEPT !.route = r.route]
          /\ pc' = IF r.threw THEN "threw" ELSE "returned"
  /\ UNCHANGED <<firestore, history, callers, oracle, apiStatus, now, res, tsp>>

\* await findOptimalRoute(points, Hub)
CallFindOptimalRoute ==
  /\ pc = "idle"
  /\ \E points \in EngineLists :
       LET r == findOptimalRoute(points, Hub, cacheWithExpiry)
       IN /\ req' = EngineBody("findOptimalRoute", points)
          /\ cacheWithExpiry' = r.cache
          /\ oracleCalls' = oracleCalls + r.calls
          /\ local' = [local EXCEPT !.route = r.route]
          /\ pc' = IF r.threw THEN "threw" ELSE "returned"
  /\ UNCHANGED <<firestore, history, callers, oracle, apiStatus, now, res, tsp>>

\* await calculateRouteMetrics(route) for a route of the given set
CallMetricsOn(routes) ==
  /\ pc = "idle"
  /\ \E route \in routes :
       LET r == calculateRouteMetrics(route, cacheWithExpiry)
       IN /\ req' = EngineBody("calculateRouteMetrics", route)
          /\ cacheWithExpiry' = r.cache
          /\ oracleCalls' = oracleCalls + r.calls
          /\ res' = [NoResponse EXCEPT !.metrics = r.metrics]
          /\ pc' = IF r.threw THEN "threw" ELSE "returned"
  /\ UNCHANGED <<firestore, history, callers, oracle, apiStatus, now, local, tsp>>

\* bodies of a fuel savings request: every delivery list for the hub, an
\* empty list, a missing start point
SimulateBodies ==
  {EngineBody("simulateFuelSavings", points) : points \in EngineLists \cup {<<>>}}
  \cup {[EngineBody("simulateFuelSavings", <<1>>) EXCEPT !.point = NoPoint]}

\* POST of a fuel savings simulation
SimulateRequest == \E body \in SimulateBodies : SimulateFuelSavings(body)

\* ordered routes of one or more different points
EngineRoutes == SeqsOver(EnginePoints) \ {<<>>}

\* await calculateRouteMetrics(route) on a fresh cache
CallCalculateRouteMetricsDirect == CallMetricsOn(EngineRoutes)

InitEngine ==
  /\ apiStatus = "OK"
  /\ oracle \in EngineOracles
  /\ now = 0
  /\ cacheWithExpiry = CacheNew
  /\ pc = "idle"
  /\ req = NoRequest
  /\ local = NoLocal
  /\ res = NoResponse
  /\ oracleCalls = 0
  /\ tsp = NoTsp
  /\ callers = NoCallers
  /\ history = NoHistory
  /\ firestore = NoOrders

NextEngine ==
  \/ CallFindOptimalRouteTSP
  \/ CallFindOptimalRoute
  \/ CallCalculateRouteMetricsDirect
  \/ SimulateRequest
  \/ SimulateFuelSavingsRoute
  \/ SimulateFuelSavingsMetrics

SpecEngine == InitEngine /\ [][NextEngine]_vars

\* =====================================================================
\* twoOptImprovement called directly on a numeric matrix
\* =====================================================================
Indices == 0..(NumIdx - 1)

\* the numeric matrix with a zero diagonal and the leg off[<<i, j>>] elsewhere
MatrixFrom(off) ==
  [i \in Indices |-> [j \in Indices |-> IF i = j THEN 0 ELSE off[<<i, j>>]]]

\* the symmetric matrix with the leg half[<<i, j>>], i < j, in both directions
SymmetricFrom(half) ==
  [i \in Indices |-> [j \in Indices |->
     IF i = j THEN 0 ELSE IF i < j THEN half[<<i, j>>] ELSE half[<<j, i>>]]]

\* asymmetric matrices of finite legs, and symmetric matrices whose legs may
\* be Infinity
TwoOptMatrices ==
  {MatrixFrom(off) : off \in [OffDiagonal(Indices) -> 1..MaxLeg]}
  \cup {SymmetricFrom(half) :
          half \in [{pair \in Indices \X Indices : pair[1] < pair[2]} ->
                      (1..MaxLeg) \cup {Infinity}]}

\* input tours: duplicate-free, starting at index 0
TwoOptTours == {<<0>> \o t : t \in SeqsOver(Indices \ {0})}

InitTwoOpt ==
  /\ \E m \in TwoOptMatrices, t \in TwoOptTours,
        k \in (0..MaxIter) \cup {DefaultMaxIterations} :
       tsp = [phase |-> "twoOpt", matrix |-> m, startIndex |-> 0, input |-> t,
              maxIterations |-> k, nn |-> NNInit(0), opt |-> TwoOptInit(t, m),
              frontier |-> FrontierInit(1)]
  /\ oracle = OracleDown
  /\ apiStatus = "OK"
  /\ now = 0
  /\ cacheWithExpiry = CacheNew
  /\ pc = "idle"
  /\ req = NoRequest
  /\ local = NoLocal
  /\ res = NoResponse
  /\ oracleCalls = 0
  /\ callers = NoCallers
  /\ history = NoHistory
  /\ firestore = NoOrders

\* one turn of the while loop of twoOptImprovement
TwoOptIterate ==
  /\ tsp.phase = "twoOpt"
  /\ ~tsp.opt.done
  /\ tsp' = [tsp EXCEPT !.opt = TwoOptStep(tsp.matrix, tsp.maxIterations, tsp.opt)]
  /\ UNCHANGED <<firestore, history, callers, oracle, apiStatus, now, cacheWithExpiry, pc, req, local, res,
                 oracleCalls>>

NextTwoOpt == TwoOptIterate

SpecTwoOpt == InitTwoOpt /\ [][NextTwoOpt]_vars

\* =====================================================================
\* nearestNeighbor, then twoOptImprovement on its tour, called directly on
\* a numeric matrix (the two calls of findOptimalRouteTSP, tsp.js 136-139)
\* =====================================================================
TSPMatrices == TwoOptMatrices \cup {ScenarioMatrix}

InitTSP ==
  /\ \E m \in TSPMatrices : \E s \in DOMAIN m :
       tsp = [phase |-> "nn", matrix |-> m, startIndex |-> s, input |-> <<>>,
              maxIterations |-> DefaultMaxIterations, nn |-> NNInit(s),
              opt |-> TwoOptInit(<<>>, <<>>), frontier |-> FrontierInit(1)]
  /\ oracle = OracleDown
  /\ apiStatus = "OK"
  /\ now = 0
  /\ cacheWithExpiry = CacheNew
  /\ pc = "idle"
  /\ req = NoRequest
  /\ local = NoLocal
  /\ res = NoResponse
  /\ oracleCalls = 0
  /\ callers = NoCallers
  /\ history = NoHistory
  /\ firestore = NoOrders

\* one turn of the while loop of nearestNeighbor
NNIterate ==
  /\ tsp.phase = "nn"
  /\ ~tsp.nn.done
  /\ tsp' = [tsp EXCEPT !.nn = NNStep(tsp.matrix, tsp.nn)]
  /\ UNCHANGED <<firestore, history, callers, oracle, apiStatus, now, cacheWithExpiry, pc, req, local, res,
                 oracleCalls>>

\* nearestNeighbor has returned; twoOptImprovement is entered with its tour
BeginTwoOpt ==
  /\ tsp.phase = "nn"
  /\ tsp.nn.done
  /\ tsp' = [tsp EXCEPT !.phase = "twoOpt", !.input = tsp.nn.tour,
                        !.opt = TwoOptInit(tsp.nn.tour, tsp.matrix)]
  /\ UNCHANGED <<firestore, history, callers, oracle, apiStatus, now, cacheWithExpiry, pc, req, local, res,
                 oracleCalls>>

NextTSP == NNIterate \/ BeginTwoOpt \/ TwoOptIterate

SpecTSP == InitTSP /\ [][NextTSP]_vars

\* =====================================================================
\* The loop of findOptimalRoute run turn by turn on a matrix: a matrix of
\* numbers, or a matrix as getDistanceMatrix returns it (cell objects, null)
\* =====================================================================
\* a numeric matrix as JS values
AsJsNumbers(m) == [i \in DOMAIN m |-> [j \in DOMAIN m[i] |-> JsNum(m[i][j])]]

\* raw matrices over the indices: a cell object for a leg of 1 km or null
\* off the diagonal, a cell object of distance 0 on it
RawMatrices ==
  {[i \in Indices |-> [j \in Indices |->
      IF i = j THEN JsCell(0, 0)
      ELSE IF off[<<i, j>>] THEN JsCell(MetersPerKm, 2 * SecondsPerMinute)
      ELSE JsNull]] :
     off \in [OffDiagonal(Indices) -> BOOLEAN]}

FrontierMatrices == {AsJsNumbers(m) : m \in TwoOptMatrices} \cup RawMatrices

InitFrontier ==
  /\ \E m \in FrontierMatrices :
       tsp = [NoTsp EXCEPT !.phase = "frontier", !.matrix = m,
                           !.frontier = FrontierInit(NumPointsOf(m))]
  /\ oracle = OracleDown
  /\ apiStatus = "OK"
  /\ now = 0
  /\ cacheWithExpiry = CacheNew
  /\ pc = "idle"
  /\ req = NoRequest
  /\ local = NoLocal
  /\ res = NoResponse
  /\ oracleCalls = 0
  /\ callers = NoCallers
  /\ history = NoHistory
  /\ firestore = NoOrders

\* one turn of the while loop of findOptimalRoute
FrontierIterate ==
  /\ tsp.phase = "frontier"
  /\ ~tsp.frontier.done
  /\ tsp' = [tsp EXCEPT !.frontier = FrontierStep(tsp.matrix, tsp.frontier)]
  /\ UNCHANGED <<firestore, history, callers, oracle, apiStatus, now, cacheWithExpiry, pc,
                 req, local, res, oracleCalls>>

NextFrontier == FrontierIterate

SpecFrontier == InitFrontier /\ [][NextFrontier]_vars

\* =====================================================================
\* The server over time: calls one after the other on the shared cache,
\* while the clock advances, cleanup timers fire and the provider fails
\* and recovers
\* =====================================================================
\* providers that differ in what they report for the leg from stop 1 to stop 2
CacheOracles ==
  {OracleFrom(Points, [pair \in OffDiagonal(Points) |->
                         IF pair = <<1, 2>> THEN e ELSE ElementOK(1)]) :
     e \in Elements}

\* delivery lists with every stop, and the routes from the hub over them
CacheLists == {l \in SeqsOver(Stops) : Len(l) = NumPoints - 1}
CacheRoutes == {<<Hub>> \o l : l \in CacheLists}

CacheBodies ==
  [op : {"optimize"}, algorithm : Algorithms,
   points : {[kind |-> "array", items |-> l] : l \in CacheLists},
   point : {Hub}, index : {NoIndex}]

InitCache ==
  /\ apiStatus = "OK"
  /\ oracle \in CacheOracles
  /\ now = 0
  /\ cacheWithExpiry = CacheNew
  /\ pc = "idle"
  /\ req = NoRequest
  /\ local = NoLocal
  /\ res = NoResponse
  /\ oracleCalls = 0
  /\ tsp = NoTsp
  /\ callers = NoCallers
  /\ history = NoHistory
  /\ firestore = NoOrders

CacheOptimizeRequest ==
  pc = "idle" /\ \E body \in CacheBodies : OptimizeRoute(body)

\* await calculateRouteMetrics(route), one after the other on the cache
CallCalculateRouteMetrics == CallMetricsOn(CacheRoutes)

\* the call has ended and the next one may begin; the observer notes the
\* metrics a route got the first time and the cache the next call starts on
ReturnToIdle ==
  /\ pc \in {"done", "returned", "threw"}
  /\ pc' = "idle"
  /\ req' = NoRequest
  /\ local' = NoLocal
  /\ res' = NoResponse
  /\ oracleCalls' = 0
  /\ history' =
       [history EXCEPT
          !.cacheAtStart = cacheWithExpiry,
          !.metrics =
             IF /\ pc = "returned" /\ req.op = "calculateRouteMetrics"
                /\ req.points.items \notin DOMAIN history.metrics
             THEN (req.points.items :> res.metrics) @@ history.metrics
             ELSE history.metrics]
  /\ UNCHANGED <<firestore, callers, oracle, apiStatus, now, cacheWithExpiry, tsp>>

\* the number of times the clock has advanced
Ticks == (now \div CACHE_EXPIRY) + (now % CACHE_EXPIRY)

\* Date.now() advances, by a millisecond or by the time to live of an entry
ClockTick ==
  /\ pc # "idle"
  /\ Ticks < MaxTicks
  /\ \E delta \in {1, CACHE_EXPIRY} : now' = now + delta
  /\ UNCHANGED <<firestore, history, callers, oracle, apiStatus, cacheWithExpiry, pc, req,
                 local, res, oracleCalls, tsp>>

\* a cleanup timer of CacheWithExpiry.set that is due fires: this.delete(key)
TimerFire ==
  /\ pc # "idle"
  /\ \E t \in cacheWithExpiry.timers :
       /\ t.due <= now
       /\ cacheWithExpiry' =
            [map |-> CacheDelete(cacheWithExpiry, t.key).map,
             timers |-> cacheWithExpiry.timers \ {t}]
  /\ UNCHANGED <<firestore, history, callers, oracle, apiStatus, now, pc, req, local, res,
                 oracleCalls, tsp>>

\* the provider's endpoint starts to fail, or recovers
ProviderFlip ==
  /\ pc # "idle"
  /\ apiStatus' = IF apiStatus = "OK" THEN "OVER_QUERY_LIMIT" ELSE "OK"
  /\ UNCHANGED <<firestore, history, callers, oracle, now, cacheWithExpiry, pc, req, local,
                 res, oracleCalls, tsp>>

NextCache ==
  \/ CacheOptimizeRequest
  \/ OptimizeRouteMetrics
  \/ CallCalculateRouteMetrics
  \/ ReturnToIdle
  \/ ClockTick
  \/ TimerFire
  \/ ProviderFlip

SpecCache == InitCache /\ [][NextCache]_vars

\* =====================================================================
\* The methods of CacheWithExpiry called directly, one after the other,
\* while the clock advances and cleanup timers fire
\* =====================================================================
CacheKeys == {"a"}
CacheValues == {1, 2}
\* times to live: a millisecond, and CACHE_EXPIRY
CacheTtls == {1, CACHE_EXPIRY}

\* the method called last and its arguments
CacheOp(op, key) == [op |-> op, key |-> key]
\* what get / has reported, the expiry time of the item reported, and the
\* time of the call
CacheResult(found, item) ==
  [found |-> found, value |-> item.value, expiry |-> item.expiry, at |-> now]
NoItem == [value |-> 0, expiry |-> 0]

InitCacheOps ==
  /\ apiStatus = "OK"
  /\ oracle = OracleDown
  /\ now = 0
  /\ cacheWithExpiry = CacheNew
  /\ pc = "cache"
  /\ req = CacheOp("none", "a")
  /\ local = NoLocal
  /\ res = CacheResult(FALSE, NoItem)
  /\ oracleCalls = 0
  /\ tsp = NoTsp
  /\ callers = NoCallers
  /\ history = NoHistory
  /\ firestore = NoOrders

\* cacheWithExpiry.set(key, value, ttl)
CacheOpSet ==
  /\ pc = "cache"
  /\ \E key \in CacheKeys, value \in CacheValues, ttl \in CacheTtls :
       /\ cacheWithExpiry' = CacheSet(cacheWithExpiry, key, value, ttl)
       /\ req' = CacheOp("set", key)
       /\ history' = [history EXCEPT !.lastSet =
                        (key :> [value |-> value, expiry |-> now + ttl]) @@ @]
  /\ UNCHANGED <<firestore, callers, oracle, apiStatus, now, pc, local, res, oracleCalls,
                 tsp>>

\* cacheWithExpiry.get(key)
CacheOpGet ==
  /\ pc = "cache"
  /\ \E key \in CacheKeys :
       LET r == CacheGet(cacheWithExpiry, key)
       IN /\ cacheWithExpiry' = r.cache
          /\ req' = CacheOp("get", key)
          /\ res' = CacheResult(r.found, IF r.found THEN cacheWithExpiry.map[key]
                                         ELSE NoItem)
  /\ UNCHANGED <<firestore, history, callers, oracle, apiStatus, now, pc, local,
                 oracleCalls, tsp>>

\* cacheWithExpiry.has(key)
CacheOpHas ==
  /\ pc = "cache"
  /\ \E key \in CacheKeys :
       LET r == CacheHas(cacheWithExpiry, key)
       IN /\ cacheWithExpiry' = r.cache
          /\ req' = CacheOp("has", key)
          /\ res' = CacheResult(r.found, IF r.found THEN cacheWithExpiry.map[key]
                                         ELSE NoItem)
  /\ UNCHANGED <<firestore, history, callers, oracle, apiStatus, now, pc, local,
                 oracleCalls, tsp>>

\* cacheWithExpiry.delete(key)
CacheOpDelete ==
  /\ pc = "cache"
  /\ \E key \in CacheKeys :
       /\ cacheWithExpiry' = CacheDelete(cacheWithExpiry, key)
       /\ req' = CacheOp("delete", key)
       /\ history' = [history EXCEPT !.lastSet =
                        [k \in DOMAIN @ \ {key} |-> @[k]]]
  /\ UNCHANGED <<firestore, callers, oracle, apiStatus, now, pc, local, res, oracleCalls,
                 tsp>>

\* cacheWithExpiry.clear()
CacheOpClear ==
  /\ pc = "cache"
  /\ cacheWithExpiry' = CacheClear(cacheWithExpiry)
  /\ req' = CacheOp("clear", "a")
  /\ history' = [history EXCEPT !.lastSet = <<>>]
  /\ UNCHANGED <<firestore, callers, oracle, apiStatus, now, pc, local, res, oracleCalls,
                 tsp>>

NextCacheOps ==
  \/ CacheOpSet
  \/ CacheOpGet
  \/ CacheOpHas
  \/ CacheOpDelete
  \/ CacheOpClear
  \/ ClockTick
  \/ TimerFire

SpecCacheOps == InitCacheOps /\ [][NextCacheOps]_vars

\* =====================================================================
\* Concurrent getDistanceMatrix calls on one point list.  A call runs from
\* its entry to its await in one step and from the response to its return
\* in another; steps of other calls, timers and the clock come in between.
\* =====================================================================
Callers == 1..NumCallers

\* the point list every caller passes: all the points, the hub first
RaceList == [k \in 1..NumPoints |-> k - 1]

InitRace ==
  /\ apiStatus = "OK"
  /\ oracle \in CacheOracles
  /\ now = 0
  /\ cacheWithExpiry = CacheNew
  /\ pc = "racing"
  /\ req = NoRequest
  /\ local = NoLocal
  /\ res = NoResponse
  /\ oracleCalls = 0
  /\ tsp = NoTsp
  /\ callers = [c \in Callers |-> [pc |-> "start", matrix |-> <<>>]]
  /\ history = NoHistory
  /\ firestore = NoOrders

\* a caller enters getDistanceMatrix and runs to its return on a cache hit,
\* or to the await of the provider's answer (part_006 882-907)
GdmEnter(c) ==
  /\ callers[c].pc = "start"
  /\ LET first == GdmLookup(RaceList, cacheWithExpiry)
     IN /\ cacheWithExpiry' = first.cache
        /\ callers' = [callers EXCEPT ![c] =
                         IF first.hit
                         THEN [pc |-> "returned", matrix |-> first.matrix]
                         ELSE [pc |-> "awaiting", matrix |-> <<>>]]
        /\ oracleCalls' = oracleCalls + (IF first.hit THEN 0 ELSE 1)
  /\ UNCHANGED <<firestore, history, oracle, apiStatus, now, pc, req, local, res, tsp>>

\* the provider's answer arrives and the caller runs to its return or throw
\* (part_006 909-946); the observer notes the matrix of a successful answer
GdmResume(c) ==
  /\ callers[c].pc = "awaiting"
  /\ LET r == GdmFinish(RaceList, cacheWithExpiry)
     IN /\ cacheWithExpiry' = r.cache
        /\ callers' = [callers EXCEPT ![c] =
                         [pc |-> IF r.threw THEN "threw" ELSE "returned",
                          matrix |-> r.matrix]]
  /\ history' = IF apiStatus = "OK"
                THEN [history EXCEPT !.responses = @ \cup {FormatMatrix(RaceList)}]
                ELSE history
  /\ UNCHANGED <<firestore, oracle, apiStatus, now, pc, req, local, res, oracleCalls, tsp>>

\* the provider's data change (traffic): later answers differ from earlier
ProviderChange ==
  /\ pc = "racing"
  /\ \E o \in CacheOracles \ {oracle} : oracle' = o
  /\ UNCHANGED <<firestore, history, callers, apiStatus, now, cacheWithExpiry, pc, req,
                 local, res, oracleCalls, tsp>>

NextRace ==
  \/ \E c \in Callers : GdmEnter(c)
  \/ \E c \in Callers : GdmResume(c)
  \/ ProviderChange
  \/ ClockTick
  \/ TimerFire
  \/ ProviderFlip

SpecRace == InitRace /\ [][NextRace]_vars

\* =====================================================================
\* src/unnamed/part_006 : services/firebase.js (delivery orders) and
\* src/unnamed/part_001 : controllers/deliveryController.js.
\* Concurrent getOrder, updateOrder and assignDriver requests; every request
\* is split at its awaits.
\* =====================================================================
\* const CACHE_EXPIRY of the firebase service: 5 minutes
ORDER_CACHE_EXPIRY == 5 * 60 * 1000

\* "o1" has a stored document, "o2" has none
OrderIds == {"o1", "o2"}
\* the order data: what createDeliveryOrder stored, what an update writes
StoredOrder == 0
UpdateData == {1, 2}
NoDoc == -3
Handlers == {"getOrder", "updateOrder", "assignDriver"}

\* the cache key `order_${orderId}`
OrderKey(orderId) == <<"order", orderId>>

NoOrderCall ==
  [handler |-> "none", pc |-> "idle", id |-> "o1", data |-> NoDoc,
   doc |-> NoDoc, got |-> NoDoc, updated |-> FALSE, status |-> 0,
   message |-> ""]

\* the catch block of a handler: status and message for a thrown error
OrderError(handler, error) ==
  [status |-> IF error = "Order not found" THEN 404 ELSE 500,
   message |-> IF error = "Order not found" THEN "Order not found"
               ELSE CASE handler = "getOrder" -> "Failed to get delivery order"
                      [] handler = "updateOrder" ->
                           "Failed to update delivery order"
                      [] OTHER -> "Failed to assign driver to order"]

\* the catch block of getDeliveryOrder: whatever was thrown, a new error
GetDeliveryOrderCatch(error) == "Failed to get delivery order"

\* the catch block of updateDeliveryOrder and, around it, the one of
\* assignDriverToOrder
UpdateDeliveryOrderCatch(handler, error) ==
  IF handler = "assignDriver" THEN "Failed to assign driver to order"
  ELSE "Failed to update delivery order"

\* the handler of call c answers with an error
OrderFails(c, error) ==
  LET r == OrderError(callers[c].handler, error)
  IN [callers EXCEPT ![c].pc = "done", ![c].status = r.status,
                     ![c].message = r.message]

\* getDeliveryOrder up to its await: the cache is looked up; a cached order
\* is returned at once and the handler answers 200
GetDeliveryOrderEnter(c, call) ==
  LET cached == CacheGet(cacheWithExpiry, OrderKey(call.id))
  IN /\ cacheWithExpiry' = cached.cache
     /\ callers' =
          [callers EXCEPT ![c] =
             IF cached.found
             THEN [call EXCEPT !.pc = "done", !.status = 200,
                     !.got = cacheWithExpiry.map[OrderKey(call.id)].value]
             ELSE [call EXCEPT !.pc = "get.firestore"]]

InitOrders ==
  /\ apiStatus = "OK"
  /\ oracle = OracleDown
  /\ now = 0
  /\ cacheWithExpiry = CacheNew
  /\ pc = "orders"
  /\ req = NoRequest
  /\ local = NoLocal
  /\ res = NoResponse
  /\ oracleCalls = 0
  /\ tsp = NoTsp
  /\ callers = [c \in Callers |-> NoOrderCall]
  /\ firestore = ("o1" :> StoredOrder)
  /\ history = NoHistory

\* a request arrives: getOrder enters getDeliveryOrder, updateOrder and
\* assignDriver send the update to Firestore
OrderRequest(c) ==
  /\ pc = "orders"
  /\ callers[c].pc = "idle"
  /\ \E handler \in Handlers, orderId \in OrderIds, data \in UpdateData :
       LET call == [NoOrderCall EXCEPT !.handler = handler, !.id = orderId]
       IN IF handler = "getOrder"
          THEN GetDeliveryOrderEnter(c, call)
          ELSE /\ callers' = [callers EXCEPT ![c] =
                                [call EXCEPT !.pc = "update.firestore",
                                             !.data = data]]
               /\ UNCHANGED cacheWithExpiry
  /\ UNCHANGED <<firestore, history, oracle, apiStatus, now, pc, req, local,
                 res, oracleCalls, tsp>>

\* updateDeliveryOrder: Firestore applies the update, or rejects it when
\* the document does not exist
FirestoreUpdate(c) ==
  /\ pc = "orders"
  /\ callers[c].pc = "update.firestore"
  /\ IF callers[c].id \in DOMAIN firestore
     THEN /\ firestore' = [firestore EXCEPT ![callers[c].id] = callers[c].data]
          /\ callers' = [callers EXCEPT ![c].pc = "update.rtdb"]
     ELSE /\ callers' = OrderFails(c, UpdateDeliveryOrderCatch(
                                        callers[c].handler, "NOT_FOUND"))
          /\ UNCHANGED firestore
  /\ UNCHANGED <<history, oracle, apiStatus, now, cacheWithExpiry, pc, req,
                 local, res, oracleCalls, tsp>>

\* updateDeliveryOrder after the Realtime Database update: the cache entry
\* is deleted and the function returns true
RtdbUpdate(c) ==
  /\ pc = "orders"
  /\ callers[c].pc = "update.rtdb"
  /\ cacheWithExpiry' = CacheDelete(cacheWithExpiry, OrderKey(callers[c].id))
  /\ callers' = [callers EXCEPT
                   ![c].updated = TRUE,
                   ![c].pc = IF callers[c].handler = "assignDriver"
                             THEN "assign.notify" ELSE "get.enter"]
  /\ UNCHANGED <<firestore, history, oracle, apiStatus, now, pc, req, local,
                 res, oracleCalls, tsp>>

\* assignDriverToOrder after sendDriverNotification, which may throw
DriverNotified(c) ==
  /\ pc = "orders"
  /\ callers[c].pc = "assign.notify"
  /\ \E sent \in BOOLEAN :
       callers' = IF sent THEN [callers EXCEPT ![c].pc = "get.enter"]
                  ELSE OrderFails(c, "Failed to assign driver to order")
  /\ UNCHANGED <<firestore, history, oracle, apiStatus, now, cacheWithExpiry,
                 pc, req, local, res, oracleCalls, tsp>>

\* updateOrder and assignDriver: "Get updated order"
GetUpdatedOrder(c) ==
  /\ pc = "orders"
  /\ callers[c].pc = "get.enter"
  /\ GetDeliveryOrderEnter(c, callers[c])
  /\ UNCHANGED <<firestore, history, oracle, apiStatus, now, pc, req, local,
                 res, oracleCalls, tsp>>

\* getDeliveryOrder: Firestore reads the document
FirestoreRead(c) ==
  /\ pc = "orders"
  /\ callers[c].pc = "get.firestore"
  /\ callers' = [callers EXCEPT
                   ![c].pc = "get.resume",
                   ![c].doc = IF callers[c].id \in DOMAIN firestore
                              THEN firestore[callers[c].id] ELSE NoDoc]
  /\ UNCHANGED <<firestore, history, oracle, apiStatus, now, cacheWithExpiry,
                 pc, req, local, res, oracleCalls, tsp>>

\* getDeliveryOrder after its await: a missing document throws, a document
\* is cached and returned, and the handler answers
GetDeliveryOrderResume(c) ==
  /\ pc = "orders"
  /\ callers[c].pc = "get.resume"
  /\ IF callers[c].doc = NoDoc
     THEN /\ callers' = OrderFails(c, GetDeliveryOrderCatch("Order not found"))
          /\ UNCHANGED cacheWithExpiry
     ELSE /\ cacheWithExpiry' = CacheSet(cacheWithExpiry,
                                        OrderKey(callers[c].id),
                                        callers[c].doc, ORDER_CACHE_EXPIRY)
          /\ callers' = [callers EXCEPT ![c].pc = "done", ![c].status = 200,
                                        ![c].got = callers[c].doc]
  /\ UNCHANGED <<firestore, history, oracle, apiStatus, now, pc, req, local,
                 res, oracleCalls, tsp>>

NextOrders ==
  \/ \E c \in Callers : OrderRequest(c)
  \/ \E c \in Callers : FirestoreUpdate(c)
  \/ \E c \in Callers : RtdbUpdate(c)
  \/ \E c \in Callers : DriverNotified(c)
  \/ \E c \in Callers : GetUpdatedOrder(c)
  \/ \E c \in Callers : FirestoreRead(c)
  \/ \E c \in Callers : GetDeliveryOrderResume(c)

SpecOrders == InitOrders /\ [][NextOrders]_vars

\* =====================================================================
\* Properties
\* =====================================================================
\* a sequencing function has returned a route to the caller
EngineReturned(op) == pc = "returned" /\ req.op = op

\* the route has the start first and every delivery point exactly once
IsFullTour(route, startPoint, points) ==
  /\ Len(route) = Len(points) + 1
  /\ route[1] = startPoint
  /\ \A p \in Range(points) : Count(route, p) = 1

\* C1: on a provider that reports a finite distance for every ordered pair,
\* findOptimalRouteTSP does not throw and returns a sequence of length
\* |points|+1 with the start point first and every delivery point exactly once.
C1_TSPReturnsFullTour ==
  req.op = "findOptimalRouteTSP" =>
    /\ pc = "returned"
    /\ IsFullTour(local.route, req.point, req.points.items)

\* C1 witness: a tour over the hub and three stops whose stops were resequenced
C1_Witness ==
  /\ EngineReturned("findOptimalRouteTSP")
  /\ Len(req.points.items) = NumIdx - 1
  /\ SliceFrom(local.route, 1) # req.points.items

\* C2: on a provider that reports every pair reachable, findOptimalRoute
\* returns a sequence of length |points|+1 with the start point first and
\* every delivery point exactly once.
C2_FrontierReturnsFullTour ==
  req.op = "findOptimalRoute" =>
    /\ pc = "returned"
    /\ IsFullTour(local.route, req.point, req.points.items)

\* C3: at every turn of twoOptImprovement's loop, and so on return, the best
\* tour's total consecutive-leg distance is at most the input tour's, for
\* every matrix, input tour and maxIterations >= 0.
C3_TwoOptNeverWorse ==
  tsp.phase = "twoOpt" =>
    calculateTourDistance(tsp.opt.bestTour, tsp.matrix)
      <= calculateTourDistance(tsp.input, tsp.matrix)

\* C3 witness: twoOptImprovement returned after two improving reversals
C3_Witness ==
  /\ tsp.phase = "twoOpt"
  /\ tsp.opt.done
  /\ tsp.opt.iteration >= 2
  /\ tsp.opt.bestTour # tsp.input
  /\ calculateTourDistance(tsp.opt.bestTour, tsp.matrix)
       < calculateTourDistance(tsp.input, tsp.matrix)

\* the reoptimized route of a reoptimize request, once sequenced
Reoptimized == req.op = "reoptimize" /\ pc = "reoptimize_metrics"

\* C4: for both algorithms and every currentIndex in range, the reoptimized
\* route equals the caller's current route at the positions 0..currentIndex.
C4_PrefixPreserved ==
  Reoptimized =>
    /\ Len(local.route) >= req.index + 1
    /\ \A k \in 1..(req.index + 1) : local.route[k] = req.points.items[k]

\* every leg between two points of the list is reported OK by the provider
FullyReachable(points) ==
  \A a, b \in Range(points) : oracle[<<a, b>>].status = "OK"

\* C5: on a fully reachable provider the reoptimized route has the length of
\* the current route and holds each of its stops exactly once.
C5_SameStops ==
  (Reoptimized /\ FullyReachable(req.points.items)) =>
    /\ Len(local.route) = Len(req.points.items)
    /\ \A p \in Range(req.points.items) : Count(local.route, p) = 1

\* a compare request answered with its comparison
Compared == req.op = "compare" /\ res.status = 200

\* C6: 'recommended' is 'dijkstra' exactly when the frontier route's
\* totalDistance is strictly smaller than the TSP route's, and 'tsp'
\* otherwise, in particular when the two are equal.
C6_RecommendedRule ==
  Compared =>
    LET d == res.comparison.dijkstra.metrics.totalDistance
        t == res.comparison.tsp.metrics.totalDistance
    IN /\ d < t => res.comparison.recommended = "dijkstra"
       /\ t < d => res.comparison.recommended = "tsp"
       /\ t = d => res.comparison.recommended = "tsp"

\* C6 witness: a comparison of two stops that ends in an exact tie
C6_Witness ==
  /\ Compared
  /\ Len(req.points.items) = NumPoints - 1
  /\ res.comparison.dijkstra.metrics.totalDistance
       = res.comparison.tsp.metrics.totalDistance
  /\ res.comparison.recommended = "tsp"

\* an optimize request that passed validation has been answered
Optimized ==
  /\ req.op = "optimize" /\ pc = "done"
  /\ req.points.kind = "array" /\ Len(req.points.items) > 0
  /\ req.point # NoPoint

\* C7: optimize never returns a route with fewer points than the input set
\* without an UnreachablePartial flag, and a provider that is up but reports
\* some leg as having no route does not make optimize fail.
C7_PartialIsFlagged ==
  Optimized =>
    /\ (res.status = 200 /\ Len(res.route) < Len(req.points.items) + 1)
         => "unreachablePartial" \in res.keys
    /\ apiStatus = "OK" => res.status = 200

\* the sequencing call of a request has returned a route
Sequenced ==
  \/ pc \in {"optimize_metrics", "reoptimize_metrics", "compare_dijkstra_metrics"}
  \/ pc = "compare_tsp_metrics"

\* the route the last sequencing call returned
SequencedRoute ==
  IF pc = "compare_dijkstra_metrics" THEN local.dijkstraRoute
  ELSE IF pc = "compare_tsp_metrics" THEN local.tspRoute
  ELSE local.route

\* the point list the last sequencing call asked the provider about
CallPoints ==
  IF req.op # "reoptimize" THEN <<req.point>> \o req.points.items
  ELSE IF req.algorithm = "tsp"
       THEN <<req.point>> \o SliceFrom(req.points.items, req.index + 1)
       ELSE SliceFrom(req.points.items, req.index)

\* C8: when the provider reports a failure for the request, or no route for
\* a leg between two of the points, findOptimalRoute and findOptimalRouteTSP
\* throw; so whenever one of them returns a route, the provider was up and
\* reported a route for every leg, and no leg was given a substituted cost.
C8_NoSubstitutedCost ==
  Sequenced => (apiStatus = "OK" /\ FullyReachable(CallPoints))

\* C9: an optimize request whose deliveryPoints is missing, not an array or
\* empty is answered 400 at once: no provider call, no cache entry, no route.
C9_EmptyOptimizeRejected ==
  (req.op = "optimize" /\ (req.points.kind # "array" \/ Len(req.points.items) = 0)) =>
    /\ pc = "done"
    /\ res.status = 400
    /\ res.route = <<>>
    /\ oracleCalls = 0
    /\ cacheWithExpiry = CacheNew

\* C9 witness: a request with an empty array and a valid start point, rejected
C9_Witness ==
  /\ req.op = "optimize"
  /\ req.points.kind = "array" /\ Len(req.points.items) = 0
  /\ req.point = Hub
  /\ res.status = 400

\* C10: a compare request with fewer than 2 delivery points is answered 400
\* and runs no heuristic.
C10_CompareNeedsTwoPoints ==
  (req.op = "compare" /\ Len(req.points.items) < 2) =>
    /\ pc = "done"
    /\ res.status = 400
    /\ oracleCalls = 0

\* C11: a reoptimize request whose currentPointIndex is undefined, negative,
\* or at least the length of currentRoute is answered 400 before any provider
\* call and before any resequencing: no cache entry and no route either.
C11_BadIndexRejected ==
  (/\ req.op = "reoptimize"
   /\ \/ req.index = NoIndex
      \/ req.index < 0
      \/ req.index >= Len(req.points.items)) =>
    /\ pc = "done"
    /\ res.status = 400
    /\ res.route = <<>>
    /\ local.route = <<>>
    /\ oracleCalls = 0
    /\ cacheWithExpiry = CacheNew

\* C11 witness: a well-formed route and position with the index one past the
\* last position of the route, rejected for its index
C11_Witness ==
  /\ req.op = "reoptimize"
  /\ req.points.kind = "array" /\ Len(req.points.items) = NumPoints
  /\ req.point = Hub
  /\ req.index = Len(req.points.items)
  /\ res.status = 400
  /\ res.message = "Valid current point index is required"

\* the indices of the matrix not in the first k positions of the tour
UnvisitedAt(m, tour, k) == DOMAIN m \ {tour[p] : p \in 1..k}

\* C13: on the 4-point symmetric matrix H-A=1, H-B=10, H-C=10, A-B=1, A-C=9,
\* B-C=1, nearestNeighbor from H returns [H,A,B,C], and twoOptImprovement on
\* that tour finds no improving reversal and returns [H,A,B,C] unchanged.
C13_ScenarioTour ==
  (tsp.matrix = ScenarioMatrix /\ tsp.startIndex = 0) =>
    /\ (tsp.phase = "nn" /\ tsp.nn.done) => tsp.nn.tour = <<0, 1, 2, 3>>
    /\ tsp.phase = "twoOpt" =>
         /\ tsp.input = <<0, 1, 2, 3>>
         /\ tsp.opt.bestTour = <<0, 1, 2, 3>>
         /\ tsp.opt.iteration >= 1 => ~tsp.opt.improved

\* C13 witness: both functions have returned on the scenario matrix from H
C13_Witness ==
  /\ tsp.matrix = ScenarioMatrix /\ tsp.startIndex = 0
  /\ tsp.phase = "twoOpt" /\ tsp.opt.done
  /\ tsp.opt.iteration = 1
  /\ tsp.opt.bestTour = <<0, 1, 2, 3>>

\* C17: at every step of nearestNeighbor the appended index is unvisited, its
\* direct distance from the previously appended index is the minimum over the
\* unvisited indices, and it is the lowest index at that minimum.
C17_NearestLowestIndex ==
  tsp.phase = "nn" =>
    \A k \in 2..Len(tsp.nn.tour) :
      LET m == tsp.matrix
          prev == tsp.nn.tour[k - 1]
          next == tsp.nn.tour[k]
          unvisited == UnvisitedAt(m, tsp.nn.tour, k - 1)
      IN /\ next \in unvisited
         /\ \A u \in unvisited :
              /\ m[prev][next] <= m[prev][u]
              /\ m[prev][u] = m[prev][next] => next <= u

\* C17 witness: a complete tour with a step at which a second unvisited index
\* was as near as the appended one
C17_Witness ==
  /\ tsp.phase = "nn" /\ tsp.nn.done
  /\ Len(tsp.nn.tour) = NumPointsOf(tsp.matrix)
  /\ \E k \in 2..Len(tsp.nn.tour) :
       \E u \in UnvisitedAt(tsp.matrix, tsp.nn.tour, k - 1) \ {tsp.nn.tour[k]} :
         tsp.matrix[tsp.nn.tour[k - 1]][u]
           = tsp.matrix[tsp.nn.tour[k - 1]][tsp.nn.tour[k]]

\* the tour nearestNeighbor has built so far is well formed
NNTourWellFormed ==
  LET m == tsp.matrix
      tour == tsp.nn.tour
  IN /\ Len(tour) <= NumPointsOf(m)
     /\ tour[1] = tsp.startIndex
     /\ \A p, q \in DOMAIN tour : p # q => tour[p] # tour[q]
     /\ \A p \in 1..(Len(tour) - 1) : m[tour[p]][tour[p + 1]] < Infinity
     /\ (tsp.nn.done /\ Len(tour) < NumPointsOf(m)) =>
          \A u \in UnvisitedAt(m, tour, Len(tour)) :
            m[tour[Len(tour)]][u] = Infinity

\* C18: for every N x N matrix of finite or infinite entries and every start
\* index, each turn of nearestNeighbor's loop either appends one index or
\* ends the loop, the tour never has more than N indices (at most N-1
\* appends), it starts with the start index, has no duplicate and only finite
\* consecutive legs, and it is shorter than N on return only if no unvisited
\* index has a finite edge from its last index.
C18_NNTerminatesWellFormed ==
  /\ [](tsp.phase = "nn" => NNTourWellFormed)
  /\ [][(tsp.phase = "nn" /\ ~tsp.nn.done) =>
          \/ tsp'.nn.done /\ tsp'.nn.tour = tsp.nn.tour
          \/ /\ ~tsp'.nn.done
             /\ Len(tsp'.nn.tour) = Len(tsp.nn.tour) + 1
             /\ SliceTo(tsp'.nn.tour, Len(tsp.nn.tour)) = tsp.nn.tour]_vars

\* C18 witness: nearestNeighbor returned a tour of two or three indices
\* because every edge from its last index to an unvisited index is infinite
C18_Witness ==
  /\ tsp.phase = "nn" /\ tsp.nn.done
  /\ Len(tsp.nn.tour) >= 2
  /\ Len(tsp.nn.tour) < NumPointsOf(tsp.matrix)

\* C14: on the provider of the scenario matrix the frontier heuristic
\* findOptimalRoute, called with the hub H and the points [A,B,C], visits A,
\* then B, then C and returns [H,A,B,C].
C14_ScenarioFrontier ==
  (/\ req.op = "findOptimalRoute"
   /\ oracle = ScenarioOracle
   /\ req.points.items = <<1, 2, 3>>) =>
    /\ pc = "returned"
    /\ local.route = <<0, 1, 2, 3>>

\* the code positions (i, j) a pass of twoOptImprovement may reverse between:
\* 0 <= i, i + 1 < j, j a position of the tour
ReversalPairs(tour) ==
  {pair \in (0..(Len(tour) - 1)) \X (0..(Len(tour) - 1)) : pair[1] + 1 < pair[2]}

\* C19: twoOptImprovement's outer loop runs at most maxIterations times
\* (default 100): every turn either ends the loop or counts one iteration,
\* the count never exceeds maxIterations, a turn applies at most one
\* reversal and only a strictly improving one, and with maxIterations = 0
\* the input tour is returned as it is.
C19_TwoOptBounded ==
  /\ [](tsp.phase = "twoOpt" =>
          /\ tsp.opt.iteration <= tsp.maxIterations
          /\ tsp.maxIterations = 0 => tsp.opt.bestTour = tsp.input)
  /\ [][(tsp.phase = "twoOpt" /\ ~tsp.opt.done) =>
          \/ /\ tsp'.opt.done
             /\ tsp'.opt.iteration = tsp.opt.iteration
             /\ tsp'.opt.bestTour = tsp.opt.bestTour
          \/ /\ ~tsp'.opt.done
             /\ tsp'.opt.iteration = tsp.opt.iteration + 1
             /\ \/ tsp'.opt.bestTour = tsp.opt.bestTour
                \/ /\ \E pair \in ReversalPairs(tsp.opt.bestTour) :
                        tsp'.opt.bestTour
                          = ReverseSegment(tsp.opt.bestTour, pair[1] + 1, pair[2])
                   /\ calculateTourDistance(tsp'.opt.bestTour, tsp.matrix)
                        < calculateTourDistance(tsp.opt.bestTour, tsp.matrix)]_vars

\* C19 witness: the loop was ended by the cap right after an improving pass
C19_Witness ==
  /\ tsp.phase = "twoOpt" /\ tsp.opt.done
  /\ tsp.maxIterations >= 1
  /\ tsp.opt.iteration = tsp.maxIterations
  /\ tsp.opt.improved
  /\ tsp.opt.bestTour # tsp.input

\* C20: when twoOptImprovement returns after a pass that made no improving
\* move, no reversal of the positions i+1..j, i + 1 < j, of the returned
\* tour has a strictly smaller total distance.
C20_LocalOptimum ==
  (tsp.phase = "twoOpt" /\ tsp.opt.done /\ ~tsp.opt.improved) =>
    \A pair \in ReversalPairs(tsp.opt.bestTour) :
      calculateTourDistance(
        ReverseSegment(tsp.opt.bestTour, pair[1] + 1, pair[2]), tsp.matrix)
        >= calculateTourDistance(tsp.opt.bestTour, tsp.matrix)

\* C20 witness: a four-index tour returned after an improving pass and a
\* pass without improvement, although a shorter tour exists
C20_Witness ==
  /\ tsp.phase = "twoOpt" /\ tsp.opt.done /\ ~tsp.opt.improved
  /\ Len(tsp.opt.bestTour) = NumIdx
  /\ tsp.opt.iteration >= 2
  /\ tsp.opt.iteration < tsp.maxIterations
  /\ \E t \in TwoOptTours :
       calculateTourDistance(t, tsp.matrix)
         < calculateTourDistance(tsp.opt.bestTour, tsp.matrix)

\* C12: with a provider that answers the same every time, a second call of
\* calculateRouteMetrics (calculateTSPRouteMetrics has the same sums) on an
\* ordered route returns the totalDistance and totalTime the first call on
\* that route returned, whether served from the provider or from the cache.
C12_MetricsIdempotent ==
  (/\ pc = "returned" /\ req.op = "calculateRouteMetrics"
   /\ req.points.items \in DOMAIN history.metrics) =>
    res.metrics = history.metrics[req.points.items]

\* C12 witness: a later call on a route, served by the provider again after
\* the first matrix expired, returned non-zero totals
C12_Witness ==
  /\ pc = "returned" /\ req.op = "calculateRouteMetrics"
  /\ req.points.items \in DOMAIN history.metrics
  /\ oracleCalls = 1
  /\ res.metrics.totalDistance > 0

IsCompleteMatrix(m, n) ==
  /\ DOMAIN m = 0..(n - 1)
  /\ \A i \in DOMAIN m : DOMAIN m[i] = 0..(n - 1)

\* C16: in every interleaving of concurrent getDistanceMatrix calls on the
\* same point list, a caller that returns holds a complete N x N matrix that
\* is the matrix of one successful provider answer, the cache entry of the
\* key is at every moment absent or such a matrix, and a race costs provider
\* calls only: at most one per caller.
C16_RaceReadsWholeMatrices ==
  /\ \A c \in DOMAIN callers :
       callers[c].pc = "returned" =>
         /\ IsCompleteMatrix(callers[c].matrix, Len(RaceList))
         /\ callers[c].matrix \in history.responses
  /\ \A k \in DOMAIN cacheWithExpiry.map :
       /\ IsCompleteMatrix(cacheWithExpiry.map[k].value, Len(RaceList))
       /\ cacheWithExpiry.map[k].value \in history.responses
  /\ oracleCalls <= Cardinality({c \in DOMAIN callers : callers[c].pc # "start"})

\* C16 witness: two callers missed the cache one after the other, both asked
\* the provider, and each returned the matrix of its own answer
C16_Witness ==
  /\ pc = "racing"
  /\ oracleCalls = 2
  /\ callers[1].pc = "returned" /\ callers[2].pc = "returned"
  /\ callers[1].matrix # callers[2].matrix

\* the tour got from t by reversing the code positions pair[1]+1..pair[2]
Reversed(t, pair) ==
  [k \in 1..Len(t) |->
     IF pair[1] + 1 <= k - 1 /\ k - 1 <= pair[2]
     THEN t[pair[1] + 1 + pair[2] - (k - 1) + 1]
     ELSE t[k]]

\* C21: if no segment reversal of the input tour has a strictly smaller
\* total distance than the input tour (reversals of equal distance
\* included), the best tour of twoOptImprovement equals the input tour
\* position by position at every turn and on return, and the input tour
\* itself is never changed.
C21_NoImprovementNoChange ==
  /\ [](( /\ tsp.phase = "twoOpt"
          /\ \A pair \in ReversalPairs(tsp.input) :
               calculateTourDistance(Reversed(tsp.input, pair), tsp.matrix)
                 >= calculateTourDistance(tsp.input, tsp.matrix))
        => tsp.opt.bestTour = tsp.input)
  /\ [][tsp.phase = "twoOpt" => tsp'.input = tsp.input]_vars

\* C21 witness: twoOptImprovement returned the input tour after one pass
\* although a reversal of it has exactly the same distance
C21_Witness ==
  /\ tsp.phase = "twoOpt" /\ tsp.opt.done
  /\ tsp.opt.iteration = 1
  /\ tsp.opt.bestTour = tsp.input
  /\ \E pair \in ReversalPairs(tsp.input) :
       /\ Reversed(tsp.input, pair) # tsp.input
       /\ calculateTourDistance(Reversed(tsp.input, pair), tsp.matrix)
            = calculateTourDistance(tsp.input, tsp.matrix)

\* C22: at every turn of twoOptImprovement and on return, the best tour has
\* the length of the input tour, holds each index as many times as the input
\* tour does, and has the input tour's element at position 0.
C22_TwoOptPermutes ==
  tsp.phase = "twoOpt" =>
    /\ Len(tsp.opt.bestTour) = Len(tsp.input)
    /\ \A x \in Range(tsp.input) \cup Range(tsp.opt.bestTour) :
         Count(tsp.opt.bestTour, x) = Count(tsp.input, x)
    /\ tsp.opt.bestTour[1] = tsp.input[1]

\* C22 witness: a four-index tour returned with every position but the
\* first changed
C22_Witness ==
  /\ tsp.phase = "twoOpt" /\ tsp.opt.done
  /\ Len(tsp.input) = NumIdx
  /\ \A k \in 2..Len(tsp.input) : tsp.opt.bestTour[k] # tsp.input[k]

\* every cell of the matrix is a number
IsNumericMatrix(m) ==
  \A i \in DOMAIN m : \A j \in DOMAIN m[i] : m[i][j].type = "number"

\* the least member of a non-empty set of numbers
Least(S) == CHOOSE x \in S : \A y \in S : x <= y

\* C23: on a numeric matrix, in every turn of the frontier loop the stored
\* best-edge value of every unvisited index i is, at the selection, the
\* minimum of matrix[v][i] over the visited indices v; the selected index is
\* an unvisited index with the smallest stored value, the lowest index at
\* that value; and no index is selected only if every stored value of an
\* unvisited index is Infinity.
C23_FrontierGrowsFromVisitedSet ==
  [][(tsp.phase = "frontier" /\ ~tsp.frontier.done
      /\ Len(tsp.frontier.path) < NumPointsOf(tsp.matrix)
      /\ IsNumericMatrix(tsp.matrix)) =>
       LET m == tsp.matrix
           visited == tsp.frontier.visited
           unvisited == DOMAIN m \ visited
           stored == tsp'.frontier.distances
       IN /\ \A i \in unvisited :
               stored[i].value = Least({m[v][i].value : v \in visited})
          /\ IF \A i \in unvisited : stored[i].value = Infinity
             THEN tsp'.frontier.done /\ tsp'.frontier.path = tsp.frontier.path
             ELSE \E next \in unvisited :
                    /\ tsp'.frontier.path = Append(tsp.frontier.path, next)
                    /\ tsp'.frontier.visited = visited \cup {next}
                    /\ \A i \in unvisited :
                         /\ stored[next].value <= stored[i].value
                         /\ stored[i].value = stored[next].value => next <= i]_vars

\* C23 witness: on a numeric matrix the loop has selected an index that is
\* not the nearest unvisited index to the point selected before it
C23_Witness ==
  /\ tsp.phase = "frontier" /\ IsNumericMatrix(tsp.matrix)
  /\ Len(tsp.frontier.path) >= 3
  /\ LET path == tsp.frontier.path
         last == path[Len(path)]
         prev == path[Len(path) - 1]
     IN \E u \in DOMAIN tsp.matrix \ Range(path) :
          tsp.matrix[prev][u].value < tsp.matrix[prev][last].value

\* C24: in a run of the frontier loop on any matrix, a turn leaves each
\* stored value distances[i] unchanged or replaces it by a strictly smaller
\* one, and leaves the value of every visited index unchanged.
C24_StoredValuesNeverIncrease ==
  [][tsp.phase = "frontier" =>
       \A i \in DOMAIN tsp.frontier.distances :
         /\ \/ tsp'.frontier.distances[i] = tsp.frontier.distances[i]
            \/ JsLess(tsp'.frontier.distances[i], tsp.frontier.distances[i])
         /\ i \in tsp.frontier.visited =>
              tsp'.frontier.distances[i] = tsp.frontier.distances[i]]_vars

\* C24 witness: a stored value was lowered twice, to a finite value and
\* then to a smaller one
C24_Witness ==
  /\ tsp.phase = "frontier" /\ IsNumericMatrix(tsp.matrix)
  /\ Len(tsp.frontier.path) >= 3
  /\ \E i \in DOMAIN tsp.matrix :
       /\ tsp.matrix[0][i].value < Infinity
       /\ tsp.frontier.distances[i].value < tsp.matrix[0][i].value

\* what the provider reports for the consecutive legs of the route from
\* position k on, summed: metres or seconds
RECURSIVE OracleLegSum(_, _, _)
OracleLegSum(route, k, field) ==
  IF k >= Len(route) THEN 0
  ELSE (IF field = "distance" THEN oracle[<<route[k], route[k + 1]>>].distance
        ELSE oracle[<<route[k], route[k + 1]>>].duration)
       + OracleLegSum(route, k + 1, field)

\* C25: for every ordered route of L >= 1 points on a reachable provider,
\* calculateRouteMetrics asks the provider for exactly that ordered route,
\* once, and returns as totalDistance the sum of the provider's distances of
\* the legs route[i] -> route[i+1], i = 0..L-2, in km, and as totalTime the
\* sum of their durations in minutes; no leg back to the first point is
\* added, and a one-point route gives 0 for both.
C25_MetricsAreLegSums ==
  req.op = "calculateRouteMetrics" =>
    LET route == req.points.items
    IN /\ pc = "returned"
       /\ oracleCalls = 1
       /\ DOMAIN cacheWithExpiry.map = {route}
       /\ res.metrics.totalDistance * MetersPerKm
            = OracleLegSum(route, 1, "distance")
       /\ res.metrics.totalTime * SecondsPerMinute
            = OracleLegSum(route, 1, "duration")
       /\ Len(route) = 1 =>
            res.metrics.totalDistance = 0 /\ res.metrics.totalTime = 0

\* C25 witness: the metrics of a route over all the points whose legs are
\* not all of the same length and whose way back differs from its way out
C25_Witness ==
  /\ EngineReturned("calculateRouteMetrics")
  /\ Len(req.points.items) = NumIdx
  /\ res.metrics.totalDistance > NumIdx - 1
  /\ res.metrics.totalDistance < MaxLeg * (NumIdx - 1)
  /\ oracle[<<req.points.items[1], req.points.items[2]>>]
       # oracle[<<req.points.items[2], req.points.items[1]>>]

\* C26: get(key) and has(key) never report a value whose expiry time (set
\* time + ttl) is earlier than the time of the call, whether or not the
\* cleanup timer of the set has fired.
C26_NoExpiredValueReported ==
  (req.op \in {"get", "has"} /\ res.found) => res.expiry >= res.at

\* C26 witness: get refused an expired item whose cleanup timer had not
\* fired, and the timer is still pending
C26_Witness ==
  /\ req.op = "get" /\ ~res.found
  /\ res.at = now
  /\ req.key \notin DOMAIN cacheWithExpiry.map
  /\ req.key \in DOMAIN history.lastSet
  /\ history.lastSet[req.key].expiry < now
  /\ \E t \in cacheWithExpiry.timers :
       t.key = req.key /\ t.due = history.lastSet[req.key].expiry

\* C27: after set(key, value, ttl) at time t, with no delete(key), clear()
\* or further set(key, ...) after it, get(key) returns the value until
\* t + ttl, whatever earlier set calls on the key there were.  Stated for
\* the times strictly before t + ttl, where the timer of that set itself
\* cannot have fired.
C27_ValueLivesUntilExpiry ==
  (/\ req.op = "get"
   /\ req.key \in DOMAIN history.lastSet
   /\ res.at < history.lastSet[req.key].expiry) =>
    /\ res.found
    /\ res.value = history.lastSet[req.key].value

\* C28: once a getDeliveryOrder(id) and an updateDeliveryOrder(id, data)
\* of different requests have both completed successfully, however they
\* were interleaved, the cache entry order_<id> is absent or holds the order
\* as stored after the update.
C28_CacheAbsentOrUpdated ==
  \A g \in Callers, u \in Callers, id \in OrderIds :
    (/\ g # u
     /\ callers[g].id = id /\ callers[g].got # NoDoc
     /\ callers[u].id = id /\ callers[u].updated
     /\ \A c \in Callers : callers[c].pc \in {"idle", "done"}) =>
      \/ OrderKey(id) \notin DOMAIN cacheWithExpiry.map
      \/ cacheWithExpiry.map[OrderKey(id)].value = firestore[id]

\* C29: a getOrder, updateOrder or assignDriver request for an order id
\* without a stored document is answered 404 'Order not found'.
C29_MissingOrderIs404 ==
  \A c \in Callers :
    (callers[c].pc = "done" /\ callers[c].id \notin DOMAIN firestore) =>
      /\ callers[c].status = 404
      /\ callers[c].message = "Order not found"

\* C30: on a provider that reports a route for every leg, a fuel savings
\* simulation reports an optimized total distance that is at most the total
\* distance of the route in the order given, so no reported saving is
\* negative.
C30_SavingsNeverNegative ==
  (req.op = "simulateFuelSavings" /\ pc = "done" /\ res.status = 200) =>
    /\ res.simulation.optimized.totalDistance
         <= res.simulation.nonOptimized.totalDistance
    /\ res.simulation.distanceSavingsKm >= 0
    /\ res.simulation.fuelSavings >= 0

====
